---- MODULE Spec2Model ----
(***************************************************************************)
(* A model of ytbpy: the four entry points (search_youtube,                *)
(* get_playlist_info, get_video_info, get_channel_info), the per-page      *)
(* record extractors and the continuation pagination loops.                *)
(*                                                                         *)
(* JSON trees are TLA+ functions with string domains (a Python dict), and  *)
(* sequences (a Python list).  Python's None is the value None below.      *)
(* The network is the environment: every fetch draws its response from a   *)
(* bounded set (no data, undecodable text, or a decoded tree).             *)
(***************************************************************************)
EXTENDS Integers, Sequences, FiniteSets, TLC

VARIABLES
    op,                 \* the entry point this run calls
    input,              \* its first argument (query, url_or_id, channel_input)
    max_results,        \* its max_results / max_videos argument
    pc,                 \* "start", "fetching" (inside the while loop), "done"
    info,               \* playlist_info while get_playlist_info runs
    all_results,        \* the accumulator (all_results / all_videos)
    continuation_token, \* the loop's current token
    page_count,         \* the loop's page counter
    result,             \* the value returned (EmptyDict until pc = "done")
    raised,             \* TRUE when the call ended with an uncaught exception
    \* ---- the environment and what it has been asked (history) ----
    issued,             \* fetch_url calls issued by the latest step
    firstFetch,         \* outcome of the first fetch: "none", "nodata", "undecodable", "ok"
    lastRequest,        \* the token carried by the latest continuation request
    lastPageToken,      \* the token the latest processed page carried (None: none)
    failed,             \* a continuation fetch returned no data or could not be parsed
    produced,           \* video renderers with an id served so far, over all pages
    anyEmpty,           \* some served page held no video renderer with an id
    allFive,            \* every served page held exactly five of them
    dropped,            \* the channel page held a renderer without id before one with
    \* ---- what outlives a call ----
    files,              \* the files of the working directory: name -> content
    payload_base        \* the module-level INNERTUBE_PAYLOAD_BASE of video.py

vars == <<op, input, max_results, pc, info, all_results, continuation_token, page_count,
          result, raised, issued, firstFetch, lastRequest, lastPageToken, failed,
          produced, anyEmpty, allFive, dropped, files, payload_base>>

---------------------------------------------------------------------------
(* Bounds of the model. *)

\* most video renderers on a page made of valid renderers only
MaxPageVideos == 5
\* longest page holding a renderer that lacks its videoId
MaxMixed == 2

\* max_results values tried (the default arguments are 10 and 50)
QuotaValues == {-1, 0, 1, 2, 12, 100}
\* the largest quota tried: one no listing of the model fills
LargeQuota == CHOOSE q \in QuotaValues : \A r \in QuotaValues : r <= q
\* max_videos values tried for the channel lookup
ChannelQuotaValues == {0, 1, 2}

\* continuation tokens the source hands out, in rotation
Tokens == <<"tokA", "tokB">>

---------------------------------------------------------------------------
(* Python values and built-ins. *)

None == "None"
EmptyDict == [k \in {} |-> None]

\* truth value of a string-or-None
Falsy(x) == x = None \/ x = ""

Min(a, b) == IF a <= b THEN a ELSE b
Max(a, b) == IF a >= b THEN a ELSE b

\* s[:n]
Slice(s, n) ==
    IF n >= 0 THEN SubSeq(s, 1, Min(n, Len(s)))
    ELSE SubSeq(s, 1, Max(Len(s) + n, 0))

\* d.get(k, default)
Get(d, k, default) == IF k \in DOMAIN d THEN d[k] ELSE default

\* d.update(u)
Update(d, u) ==
    [k \in DOMAIN d \cup DOMAIN u |-> IF k \in DOMAIN u THEN u[k] ELSE d[k]]

\* the dictionary {k: v}
Entry(k, v) == [x \in {k} |-> v]

\* Texts that the code splits or converts are held as sequences of
\* characters ("1:05" is <<"1", ":", "0", "5">>, "" is <<>>).

\* text.split(sep), the part being read is current
RECURSIVE SplitFrom(_, _, _)
SplitFrom(text, sep, current) ==
    IF text = <<>> THEN << current >>
    ELSE IF Head(text) = sep
         THEN << current >> \o SplitFrom(Tail(text), sep, <<>>)
         ELSE SplitFrom(Tail(text), sep, Append(current, Head(text)))

Split(text, sep) == SplitFrom(text, sep, <<>>)

DigitValue ==
    [c \in {"0", "1", "2", "3", "4", "5", "6", "7", "8", "9"} |->
        CASE c = "0" -> 0 [] c = "1" -> 1 [] c = "2" -> 2 [] c = "3" -> 3
          [] c = "4" -> 4 [] c = "5" -> 5 [] c = "6" -> 6 [] c = "7" -> 7
          [] c = "8" -> 8 [] OTHER -> 9]

\* the digits of a text after its sign
Unsigned(text) ==
    IF text # <<>> /\ Head(text) \in {"-", "+"} THEN Tail(text) ELSE text

\* int(text) raises ValueError: no digit, or a character that is none (the
\* texts of the model hold no blank and no underscore)
IntRaises(text) ==
    \/ Unsigned(text) = <<>>
    \/ \E i \in DOMAIN Unsigned(text) : Unsigned(text)[i] \notin DOMAIN DigitValue

RECURSIVE DigitsValue(_, _)
DigitsValue(digits, value) ==
    IF digits = <<>> THEN value
    ELSE DigitsValue(Tail(digits), 10 * value + DigitValue[Head(digits)])

\* int(text) when it does not raise
IntOf(text) ==
    IF Head(text) = "-" THEN 0 - DigitsValue(Unsigned(text), 0)
    ELSE DigitsValue(Unsigned(text), 0)

\* lines 58-67 of search.py (the same statements are at playlist.py
\* 327-338 and 512-523): the seconds spelled by the parts of a duration
DurationSeconds(time_parts) ==
    IF Len(time_parts) = 3
    THEN IntOf(time_parts[1]) * 3600 + IntOf(time_parts[2]) * 60 + IntOf(time_parts[3])
    ELSE IF Len(time_parts) = 2
    THEN IntOf(time_parts[1]) * 60 + IntOf(time_parts[2])
    ELSE IF Len(time_parts) = 1 THEN IntOf(time_parts[1])
    ELSE 0

\* one of the int() calls of those lines raises
DurationRaises(time_parts) ==
    Len(time_parts) <= 3 /\ \E i \in DOMAIN time_parts : IntRaises(time_parts[i])

\* renderer.get("lengthText", {}).get("simpleText", "")
LengthText(video_renderer) ==
    Get(Get(video_renderer, "lengthText", EmptyDict), "simpleText", <<>>)

\* building the record of video_renderer raises (the duration cannot be read)
RendererRaises(video_renderer) ==
    /\ DOMAIN video_renderer # {}
    /\ ~Falsy(Get(video_renderer, "videoId", None))
    /\ LengthText(video_renderer) # <<>>
    /\ DurationRaises(Split(LengthText(video_renderer), ":"))


\* Texts that are only searched or converted as a whole are held as strings.

\* needle in text, for strings
InText(needle, text) ==
    \E i \in 1..(Len(text) - Len(needle) + 1) :
        SubSeq(text, i, i + Len(needle) - 1) = needle

\* the digits, for texts held as strings
Digits == "0123456789"

IsDigit(c) == \E i \in 1..10 : SubSeq(Digits, i, i) = c

\* int(s) for a string of digits ("" counts 0)
RECURSIVE NumberOf(_)
NumberOf(s) ==
    IF Len(s) = 0 THEN 0
    ELSE NumberOf(SubSeq(s, 1, Len(s) - 1)) * 10
             + (CHOOSE d \in 0..9 : SubSeq(Digits, d + 1, d + 1) = SubSeq(s, Len(s), Len(s)))

\* s.replace(c, "") for a character c
RECURSIVE Without(_, _)
Without(s, c) ==
    IF Len(s) = 0 THEN ""
    ELSE IF SubSeq(s, 1, 1) = c THEN Without(Tail(s), c)
    ELSE SubSeq(s, 1, 1) \o Without(Tail(s), c)

\* the characters of s that are c
CountOf(s, c) == Cardinality({i \in 1..Len(s) : SubSeq(s, i, i) = c})

RECURSIVE Power10(_)
Power10(n) == IF n = 0 THEN 1 ELSE 10 * Power10(n - 1)

\* s.replace(word, "")
RECURSIVE ReplaceAll(_, _)
ReplaceAll(s, word) ==
    IF Len(s) < Len(word) THEN s
    ELSE IF SubSeq(s, 1, Len(word)) = word
         THEN ReplaceAll(SubSeq(s, Len(word) + 1, Len(s)), word)
    ELSE SubSeq(s, 1, 1) \o ReplaceAll(Tail(s), word)

\* s.strip(), the white space being blanks
RECURSIVE Strip(_)
Strip(s) ==
    IF Len(s) = 0 THEN ""
    ELSE IF SubSeq(s, 1, 1) = " " THEN Strip(Tail(s))
    ELSE IF SubSeq(s, Len(s), Len(s)) = " " THEN Strip(SubSeq(s, 1, Len(s) - 1))
    ELSE s

\* int(s) for a string: blanks around, a sign, then digits with single
\* underscores between them; anything else raises ValueError
IntBody(s) ==
    LET t == Strip(s) IN
    IF Len(t) > 0 /\ SubSeq(t, 1, 1) \in {"+", "-"} THEN Tail(t) ELSE t

IntTextRaises(s) ==
    LET body == IntBody(s) IN
    \/ Len(body) = 0
    \/ ~IsDigit(SubSeq(body, 1, 1))
    \/ ~IsDigit(SubSeq(body, Len(body), Len(body)))
    \/ \E i \in 1..Len(body) : ~IsDigit(SubSeq(body, i, i)) /\ SubSeq(body, i, i) # "_"
    \/ InText("__", body)

IntTextValue(s) ==
    LET magnitude == NumberOf(Without(IntBody(s), "_")) IN
    IF SubSeq(Strip(s), 1, 1) = "-" THEN 0 - magnitude ELSE magnitude

---------------------------------------------------------------------------
(* Inputs.  An argument is None ([kind |-> "none"]) or a string, carried      *)
(* with what the code's regular expressions and urlparse make of it:       *)
(*   shape  "empty", "video_id" (11 id characters), "channel_id" (UC and   *)
(*          22 id characters), "plain" (other id characters only),         *)
(*          "handle" (@name), "url", "junk" (anything else)                *)
(*   host   the site named by the netloc: "youtube.com", "youtu.be",       *)
(*          "other" or "" (no netloc)                                      *)
(*   path   the path split on "/", without the leading empty part          *)
(*   v, list  the query parameters (None when absent)                      *)

NoneInput == [kind |-> "none"]

Str(text, shape, host, path, v, list) ==
    [kind |-> "str", text |-> text, shape |-> shape, host |-> host, path |-> path,
     v |-> v, list |-> list]

PlainStr(text, shape) == Str(text, shape, "", <<text>>, None, None)

\* not x, for an argument
NotGiven(x) == x.kind = "none" \/ x.shape = "empty"

---------------------------------------------------------------------------
(* utils.py *)

get_thumbnail_urls(video_id) ==
    LET base_url == "https://img.youtube.com/vi/" \o video_id IN
    [default  |-> [url |-> base_url \o "/default.jpg", width |-> 120, height |-> 90],
     medium   |-> [url |-> base_url \o "/mqdefault.jpg", width |-> 320, height |-> 180],
     high     |-> [url |-> base_url \o "/hqdefault.jpg", width |-> 480, height |-> 360],
     standard |-> [url |-> base_url \o "/sddefault.jpg", width |-> 640, height |-> 480],
     maxres   |-> [url |-> base_url \o "/maxresdefault.jpg", width |-> 1280, height |-> 720]]

WatchUrl(video_id) == "https://www.youtube.com/watch?v=" \o video_id

\* parse_view_count(view_count_text) for a string: [returned, value], where
\* returned is "None" or "int"
parse_view_count(view_count_text) ==
    LET stripped == Strip(ReplaceAll(view_count_text, "views"))
        number == Without(stripped, ",")
    IN  IF view_count_text = "" \/ IntTextRaises(number)
        THEN [returned |-> "None", value |-> 0]
        ELSE [returned |-> "int", value |-> IntTextValue(number)]

\* the n characters of s from the i-th on
Field(s, i, n) == SubSeq(s, i, i + n - 1)

IsNumber(s) == \A i \in 1..Len(s) : IsDigit(SubSeq(s, i, i))

DaysInMonth(year, month) ==
    IF month = 2
    THEN IF year % 4 = 0 /\ (year % 100 # 0 \/ year % 400 = 0) THEN 29 ELSE 28
    ELSE IF month \in {4, 6, 9, 11} THEN 30 ELSE 31

\* "YYYY-MM-DD" names a day of the calendar
DateWellFormed(d) ==
    /\ IsNumber(Field(d, 1, 4)) /\ Field(d, 5, 1) = "-"
    /\ IsNumber(Field(d, 6, 2)) /\ Field(d, 8, 1) = "-"
    /\ IsNumber(Field(d, 9, 2))
    /\ NumberOf(Field(d, 1, 4)) >= 1
    /\ NumberOf(Field(d, 6, 2)) \in 1..12
    /\ NumberOf(Field(d, 9, 2)) \in
           1..DaysInMonth(NumberOf(Field(d, 1, 4)), NumberOf(Field(d, 6, 2)))

\* "HH:MM:SS" names a time of the day
ClockWellFormed(c) ==
    /\ IsNumber(Field(c, 1, 2)) /\ Field(c, 3, 1) = ":"
    /\ IsNumber(Field(c, 4, 2)) /\ Field(c, 6, 1) = ":"
    /\ IsNumber(Field(c, 7, 2))
    /\ NumberOf(Field(c, 1, 2)) < 24
    /\ NumberOf(Field(c, 4, 2)) < 60
    /\ NumberOf(Field(c, 7, 2)) < 60

\* "+HH:MM" or "-HH:MM" names an offset from UTC
OffsetWellFormed(o) ==
    /\ Field(o, 1, 1) \in {"+", "-"}
    /\ IsNumber(Field(o, 2, 2)) /\ Field(o, 4, 1) = ":" /\ IsNumber(Field(o, 5, 2))
    /\ NumberOf(Field(o, 2, 2)) < 24
    /\ NumberOf(Field(o, 5, 2)) < 60

\* datetime.fromisoformat(s) raises ValueError.  Of the forms it takes, the
\* date alone and the date with a time of the day and an offset are read
\* here; the other texts tried are ones it refuses.
FromIsoFormatRaises(s) ==
    ~ \/ Len(s) = 10 /\ DateWellFormed(s)
      \/ /\ Len(s) = 25
         /\ DateWellFormed(Field(s, 1, 10))
         /\ Field(s, 11, 1) = "T"
         /\ ClockWellFormed(Field(s, 12, 8))
         /\ OffsetWellFormed(Field(s, 20, 6))

\* the days from 1970-01-01 to the day given
DaysFromCivil(year, month, day) ==
    LET y == IF month <= 2 THEN year - 1 ELSE year
        era == y \div 400
        yoe == y - era * 400
        doy == (153 * (IF month > 2 THEN month - 3 ELSE month + 9) + 2) \div 5 + day - 1
        doe == yoe * 365 + yoe \div 4 - yoe \div 100 + doy
    IN  era * 146097 + doe - 719468

\* int(datetime.fromisoformat(s).timestamp()) for a text it takes; a date
\* alone is midnight in the local zone, which is UTC here
IsoTimestamp(s) ==
    LET midnight == DaysFromCivil(NumberOf(Field(s, 1, 4)), NumberOf(Field(s, 6, 2)),
                                  NumberOf(Field(s, 9, 2))) * 86400
        clock == NumberOf(Field(s, 12, 2)) * 3600 + NumberOf(Field(s, 15, 2)) * 60
                     + NumberOf(Field(s, 18, 2))
        offset == NumberOf(Field(s, 21, 2)) * 3600 + NumberOf(Field(s, 24, 2)) * 60
    IN  IF Len(s) = 10 THEN midnight
        ELSE IF Field(s, 20, 1) = "-" THEN midnight + clock + offset
        ELSE midnight + clock - offset

\* parse_iso8601_date(date_string) for a string or None: [raised, returned,
\* value], where returned is "None" or "int"
parse_iso8601_date(date_string) ==
    IF Falsy(date_string) THEN [raised |-> FALSE, returned |-> "None", value |-> 0]
    ELSE IF FromIsoFormatRaises(date_string)
    THEN [raised |-> TRUE, returned |-> "None", value |-> 0]
    ELSE [raised |-> FALSE, returned |-> "int", value |-> IsoTimestamp(date_string)]

---------------------------------------------------------------------------
(* Shared renderer helpers. *)

\* "".join(run.get("text", "") for run in runs)
RECURSIVE JoinRuns(_)
JoinRuns(runs) ==
    IF runs = <<>> THEN ""
    ELSE Get(Head(runs), "text", "") \o JoinRuns(Tail(runs))

\* node[...]["continuationEndpoint"]["continuationCommand"]["token"] can be read
HasCommandToken(renderer) ==
    /\ "continuationEndpoint" \in DOMAIN renderer
    /\ "continuationCommand" \in DOMAIN renderer["continuationEndpoint"]
    /\ "token" \in DOMAIN renderer["continuationEndpoint"]["continuationCommand"]

CommandToken(renderer) ==
    renderer["continuationEndpoint"]["continuationCommand"]["token"]

---------------------------------------------------------------------------
(* search.py: the extractors.  A dropped renderer is <<>>, a record <<info>>. *)

\* lines 8-21 without the two early returns: a record whatever the videoId
extract_search_video_details_unchecked(video_renderer) ==
    LET video_id == Get(video_renderer, "videoId", None) IN
    << [video_id |-> video_id,
        thumbnails |-> get_thumbnail_urls(video_id),
        url |-> WatchUrl(video_id)] >>

\* lines 8-37 (views and published_time are not carried)
extract_search_video_details(video_renderer) ==
    IF DOMAIN video_renderer = {} THEN <<>>
    ELSE LET video_id == Get(video_renderer, "videoId", None) IN
         IF Falsy(video_id) THEN <<>>
         ELSE LET video_info == [video_id |-> video_id,
                                 thumbnails |-> get_thumbnail_urls(video_id),
                                 url |-> WatchUrl(video_id)]
                  title_runs == Get(Get(video_renderer, "title", EmptyDict), "runs", <<>>)
              IN  << IF title_runs # <<>>
                     THEN Update(video_info, Entry("title", JoinRuns(title_runs)))
                     ELSE video_info >>

\* badges and thumbnail overlays: is_live is always set
extract_video_status(video_renderer, video_info) ==
    LET badges == Get(video_renderer, "badges", <<>>)
        live == \E i \in DOMAIN badges :
                    Get(Get(badges[i], "metadataBadgeRenderer", EmptyDict), "label", "") = "LIVE"
    IN  Update(video_info, Entry("is_live", live))

\* _extract_video_duration, when no int() raises
extract_video_duration(video_renderer, video_info) ==
    IF LengthText(video_renderer) = <<>> THEN video_info
    ELSE Update(video_info,
                [duration |-> LengthText(video_renderer),
                 duration_seconds |->
                     DurationSeconds(Split(LengthText(video_renderer), ":"))])

\* one item of a search page: the record list it contributes (when building
\* it does not raise)
SearchVideoInfo(item) ==
    LET video_renderer == Get(item, "videoRenderer", EmptyDict)
        video_info == extract_search_video_details(video_renderer)
    IN  IF video_info = <<>> THEN <<>>
        ELSE << extract_video_status(video_renderer,
                    extract_video_duration(video_renderer, video_info[1])) >>

\* the items loop raises before it ends; held is len(search_results)
RECURSIVE SearchItemsRaise(_, _, _)
SearchItemsRaise(items, held, max) ==
    IF items = <<>> THEN FALSE
    ELSE IF RendererRaises(Get(Head(items), "videoRenderer", EmptyDict)) THEN TRUE
    ELSE IF SearchVideoInfo(Head(items)) # <<>> /\ held + 1 >= max THEN FALSE
    ELSE SearchItemsRaise(Tail(items), held + Len(SearchVideoInfo(Head(items))), max)

\* the inner loop of _process_search_results: stops once max_results are held
RECURSIVE SearchItemsLoop(_, _, _)
SearchItemsLoop(items, search_results, max) ==
    IF items = <<>> THEN search_results
    ELSE LET appended == search_results \o SearchVideoInfo(Head(items)) IN
         IF Len(appended) > Len(search_results) /\ Len(appended) >= max
         THEN appended
         ELSE SearchItemsLoop(Tail(items), appended, max)

\* initial_data.get("contents", {}). ... .get("contents", [])
SearchContents(initial_data) ==
    Get(Get(Get(Get(Get(initial_data, "contents", EmptyDict),
                    "twoColumnSearchResultsRenderer", EmptyDict),
                "primaryContents", EmptyDict),
            "sectionListRenderer", EmptyDict),
        "contents", <<>>)

\* the first continuationItemRenderer among nodes: <<>> (none), <<token>>, or
\* <<"KeyError">> when its endpoint cannot be read
RECURSIVE FirstDirectToken(_)
FirstDirectToken(nodes) ==
    IF nodes = <<>> THEN <<>>
    ELSE IF "continuationItemRenderer" \in DOMAIN Head(nodes)
         THEN IF HasCommandToken(Head(nodes)["continuationItemRenderer"])
              THEN << CommandToken(Head(nodes)["continuationItemRenderer"]) >>
              ELSE << "KeyError" >>
         ELSE FirstDirectToken(Tail(nodes))

RECURSIVE FirstNestedToken(_)
FirstNestedToken(contents) ==
    IF contents = <<>> THEN <<>>
    ELSE LET inner == IF "itemSectionRenderer" \in DOMAIN Head(contents)
                      THEN FirstDirectToken(
                               Get(Head(contents)["itemSectionRenderer"], "contents", <<>>))
                      ELSE <<>>
         IN  IF inner # <<>> THEN inner ELSE FirstNestedToken(Tail(contents))

\* the token of a found continuation item, None when it could not be read
FoundToken(found) ==
    IF found = <<>> \/ found = << "KeyError" >> THEN None ELSE found[1]

FirstOf(direct, contents) ==
    IF direct # <<>> THEN FoundToken(direct) ELSE FoundToken(FirstNestedToken(contents))

\* search.py _extract_continuation_token: any exception gives None
SearchExtractContinuationToken(initial_data) ==
    FirstOf(FirstDirectToken(SearchContents(initial_data)), SearchContents(initial_data))

\* lines 192-198: the continuation item beside a section is read while the
\* quota is unmet; st is [results, token, error, stop]
SearchReadToken(content, results, token, max) ==
    IF "continuationItemRenderer" \in DOMAIN content /\ Len(results) < max
    THEN IF HasCommandToken(content["continuationItemRenderer"])
         THEN [results |-> results,
               token |-> CommandToken(content["continuationItemRenderer"]),
               error |-> FALSE, stop |-> FALSE]
         ELSE [results |-> results, token |-> token, error |-> TRUE, stop |-> FALSE]
    ELSE [results |-> results, token |-> token, error |-> FALSE, stop |-> FALSE]

\* lines 189-190: a section that fills the quota ends the outer loop
SearchAfterSection(content, results, token, max) ==
    IF "itemSectionRenderer" \in DOMAIN content
       /\ DOMAIN content["itemSectionRenderer"] # {} /\ Len(results) >= max
    THEN [results |-> results, token |-> token, error |-> FALSE, stop |-> TRUE]
    ELSE SearchReadToken(content, results, token, max)

\* lines 168-187: the items of the section of content, if it has one
SearchSection(content, results, max) ==
    IF "itemSectionRenderer" \in DOMAIN content
       /\ DOMAIN content["itemSectionRenderer"] # {}
    THEN SearchItemsLoop(Get(content["itemSectionRenderer"], "contents", <<>>),
                         results, max)
    ELSE results

\* the section of content raises while its items are read
SearchSectionRaises(content, results, max) ==
    /\ "itemSectionRenderer" \in DOMAIN content
    /\ DOMAIN content["itemSectionRenderer"] # {}
    /\ SearchItemsRaise(Get(content["itemSectionRenderer"], "contents", <<>>),
                        Len(results), max)

\* the outer loop of _process_search_results over the section list; an
\* exception anywhere in it sets the error marker (lines 203-204)
RECURSIVE SearchContentsLoop(_, _, _)
SearchContentsLoop(contents, st, max) ==
    IF contents = <<>> \/ st.error \/ st.stop THEN st
    ELSE IF SearchSectionRaises(Head(contents), st.results, max)
    THEN [st EXCEPT !.error = TRUE]
    ELSE SearchContentsLoop(Tail(contents),
             SearchAfterSection(Head(contents),
                                SearchSection(Head(contents), st.results, max),
                                st.token, max),
             max)

\* lines 200-206: the fall-back locator, and the error marker
SearchFirstPage(initial_data, st, max) ==
    IF st.error THEN [error |-> TRUE, results |-> <<>>, token |-> None]
    ELSE IF st.token = None /\ Len(st.results) < max
    THEN [error |-> FALSE, results |-> st.results,
          token |-> SearchExtractContinuationToken(initial_data)]
    ELSE [error |-> FALSE, results |-> st.results, token |-> st.token]

\* _process_search_results: [error, results, token]
process_search_results(initial_data, max) ==
    SearchFirstPage(initial_data,
        SearchContentsLoop(SearchContents(initial_data),
            [results |-> <<>>, token |-> None, error |-> FALSE, stop |-> FALSE], max),
        max)

\* the records of every item of a continuation section, none left out
RECURSIVE SearchAllItems(_)
SearchAllItems(items) ==
    IF items = <<>> THEN <<>>
    ELSE SearchVideoInfo(Head(items)) \o SearchAllItems(Tail(items))

\* some item of a continuation section raises
SearchAnyRaises(items) ==
    \E i \in DOMAIN items : RendererRaises(Get(items[i], "videoRenderer", EmptyDict))

\* the loop of _fetch_continuation_page over continuationItems; st is
\* [results, token, error]; an exception sets the error marker
RECURSIVE SearchContinuationLoop(_, _)
SearchContinuationLoop(items, st) ==
    IF items = <<>> \/ st.error THEN st
    ELSE LET item == Head(items) IN
         IF "itemSectionRenderer" \in DOMAIN item
            /\ SearchAnyRaises(Get(item["itemSectionRenderer"], "contents", <<>>))
         THEN [st EXCEPT !.error = TRUE]
         ELSE IF "itemSectionRenderer" \in DOMAIN item
         THEN SearchContinuationLoop(Tail(items),
                  [st EXCEPT !.results = st.results \o
                      SearchAllItems(Get(item["itemSectionRenderer"], "contents", <<>>))])
         ELSE IF "continuationItemRenderer" \in DOMAIN item
         THEN IF HasCommandToken(item["continuationItemRenderer"])
              THEN SearchContinuationLoop(Tail(items),
                       [st EXCEPT !.token = CommandToken(item["continuationItemRenderer"])])
              ELSE [st EXCEPT !.error = TRUE]
         ELSE SearchContinuationLoop(Tail(items), st)

\* search.py _fetch_continuation_page on a response: [error, results, token].
\* A response is [kind |-> "nodata"], [kind |-> "undecodable"] or
\* [kind |-> "ok", data |-> tree].
SearchFetchContinuationPage(token, response) ==
    LET bad == [error |-> TRUE, results |-> <<>>, token |-> None] IN
    IF Falsy(token) \/ response.kind # "ok" THEN bad
    ELSE LET commands == Get(response.data, "onResponseReceivedCommands", <<>>) IN
         IF commands = <<>> THEN bad
         ELSE LET items == Get(Get(commands[1], "appendContinuationItemsAction", EmptyDict),
                               "continuationItems", <<>>)
                  st == SearchContinuationLoop(items,
                            [results |-> <<>>, token |-> None, error |-> FALSE])
              IN  IF st.error THEN bad ELSE st

---------------------------------------------------------------------------
(* search.py: search_youtube. *)

SearchPageCeiling == 10

\* line 311 without its slice: the whole page is appended
ExtendBeyondQuota(all, page, max) == all \o page

\* line 311 as an assignment: the page replaces what was collected
ExtendReplacing(all, page, max) == Slice(page, max - Len(all))

\* line 311 with the page put before what was collected
ExtendAtFront(all, page, max) == Slice(page, max - Len(all)) \o all

\* line 311: all_results.extend(next_page_results[: max_results - len(all_results)])
ExtendWithinQuota(all, page, max) == all \o Slice(page, max - Len(all))

\* line 312 left out: the loop keeps the token it had
KeepToken(current, next) == current

\* line 312: continuation_token = next_continuation
ReplaceToken(current, next) == next

\* line 313 left out: the page counter stays
CountPageStuck(pages) == pages

\* line 313: page_count += 1
CountPage(pages) == pages + 1

\* line 303: while continuation_token and len(all_results) < max_results
SearchWhile(token, all, max) == ~Falsy(token) /\ Len(all) < max

\* line 315 with > for >=: one page more
SearchCeilingReachedLate(pages) == pages > SearchPageCeiling

\* line 315: if page_count >= 10: break
SearchCeilingReached(pages) == pages >= SearchPageCeiling

\* lines 318-323: the value returned after the loop
SearchReturn(query, all, pages, max) ==
    [query |-> query,
     results_count |-> Len(all),
     pages_fetched |-> pages,
     results |-> Slice(all, max)]

\* lines 308-309 losing the accumulator on the error marker
SearchOnPageErrorDropping(all, token, pages) ==
    [brk |-> TRUE, all |-> <<>>, token |-> token, pages |-> pages]

\* lines 308-309: an error marker from the continuation page ends the loop
\* with what was collected (brk: the loop is left by break)
SearchOnPageError(all, token, pages) ==
    [brk |-> TRUE, all |-> all, token |-> token, pages |-> pages]

\* lines 282-301: up to the loop.  [ret, result, all, token, pages, fetched]
SearchBegin(query, max, response) ==
    LET stop(msg, n) == [ret |-> TRUE, result |-> [error |-> msg], all |-> <<>>,
                         token |-> None, pages |-> 0, fetched |-> n]
    IN
    IF NotGiven(query) THEN stop("No search query provided", 0)
    ELSE IF response.kind = "nodata" THEN stop("Failed to fetch search results", 1)
    ELSE IF response.kind = "undecodable" \/ DOMAIN response.data = {}
         THEN stop("Failed to extract search data", 1)
    ELSE LET first == process_search_results(response.data, max) IN
         IF first.error THEN stop("Error parsing search results", 1)
         ELSE [ret |-> FALSE, result |-> EmptyDict, all |-> first.results,
               token |-> first.token, pages |-> 1, fetched |-> 1]

\* lines 304-316: one pass of the loop body on the response to its request
SearchIteration(all, token, pages, max, response) ==
    LET page == SearchFetchContinuationPage(token, response) IN
    IF page.error THEN SearchOnPageError(all, token, pages)
    ELSE [brk |-> SearchCeilingReached(CountPage(pages)),
          all |-> ExtendWithinQuota(all, page.results, max),
          token |-> ReplaceToken(token, page.token),
          pages |-> CountPage(pages)]

---------------------------------------------------------------------------
(* playlist.py *)

PlaylistPageCeiling == 20

\* extract_playlist_id: the id, or None
extract_playlist_id(url_or_id) ==
    IF NotGiven(url_or_id) THEN None
    ELSE IF url_or_id.shape \in {"video_id", "channel_id", "plain"} THEN url_or_id.text
    ELSE IF url_or_id.host = "youtube.com" /\ url_or_id.list # None THEN url_or_id.list
    ELSE None

PlaylistUrl(playlist_id) == "https://www.youtube.com/playlist?list=" \o playlist_id

\* lines 71-83: the description of the header when the sidebar gave none,
\* and "" when neither did
PlaylistHeaderDescription(initial_data, playlist_info) ==
    LET header == Get(Get(initial_data, "header", EmptyDict),
                      "playlistHeaderRenderer", EmptyDict)
        header_description == Get(header, "description", EmptyDict)
        fromHeader ==
            IF ("description" \notin DOMAIN playlist_info
                    \/ playlist_info["description"] = "") /\ header # EmptyDict
            THEN IF "runs" \in DOMAIN header_description
                 THEN Update(playlist_info,
                             Entry("description", JoinRuns(header_description["runs"])))
                 ELSE IF "simpleText" \in DOMAIN header_description
                 THEN Update(playlist_info,
                             Entry("description", header_description["simpleText"]))
                 ELSE playlist_info
            ELSE playlist_info
    IN  IF "description" \notin DOMAIN fromHeader
        THEN Update(fromHeader, Entry("description", ""))
        ELSE fromHeader

\* lines 98-114: the owner fields, read in the second item of the sidebar
PlaylistOwner(second, playlist_info) ==
    LET owner_title ==
            Get(Get(Get(Get(second, "playlistSidebarSecondaryInfoRenderer", EmptyDict),
                        "videoOwner", EmptyDict),
                    "videoOwnerRenderer", EmptyDict),
                "title", EmptyDict)
        runs == Get(owner_title, "runs", <<>>)
        browse_id == Get(Get(Get(runs[1], "navigationEndpoint", EmptyDict),
                             "browseEndpoint", EmptyDict), "browseId", None)
        owned == Update(playlist_info, Entry("owner", Get(runs[1], "text", "")))
    IN  IF runs = <<>> THEN playlist_info
        ELSE IF Falsy(browse_id) THEN owned
        ELSE Update(owned, [owner_id |-> browse_id,
                            owner_url |-> "https://www.youtube.com/channel/" \o browse_id])

\* _extract_playlist_metadata (title, description and owner; the counts, the
\* privacy text and the thumbnails are not read by this model): {} when the
\* sidebar has no first item or no second one (IndexError, line 117)
extract_playlist_metadata(initial_data) ==
    LET sidebar == Get(Get(initial_data, "sidebar", EmptyDict),
                       "playlistSidebarRenderer", EmptyDict)
        items == Get(sidebar, "items", <<>>)
    IN  IF items = <<>> THEN EmptyDict
        ELSE LET primary_info == Get(items[1], "playlistSidebarPrimaryInfoRenderer", EmptyDict)
                 title_runs == Get(Get(primary_info, "title", EmptyDict), "runs", <<>>)
                 described == Get(primary_info, "description", EmptyDict)
                 description == Get(described, "runs", <<>>)
                 titled == IF title_runs # <<>> THEN Entry("title", JoinRuns(title_runs))
                           ELSE EmptyDict
                 own == IF description # <<>>
                        THEN Update(titled, Entry("description", JoinRuns(description)))
                        ELSE IF "simpleText" \in DOMAIN described
                        THEN Update(titled, Entry("description", described["simpleText"]))
                        ELSE titled
             IN  IF Len(items) < 2 THEN EmptyDict
                 ELSE PlaylistOwner(items[2], PlaylistHeaderDescription(initial_data, own))

\* _extract_continuation_token_from_command_executor: the token, or None
RECURSIVE FirstExecutorToken(_)
FirstExecutorToken(commands) ==
    IF commands = <<>> THEN None
    ELSE IF "continuationCommand" \in DOMAIN Head(commands)
         THEN Get(Head(commands)["continuationCommand"], "token", None)
         ELSE FirstExecutorToken(Tail(commands))

extract_continuation_token_from_command_executor(endpoint) ==
    IF "commandExecutorCommand" \notin DOMAIN endpoint THEN None
    ELSE FirstExecutorToken(Get(endpoint["commandExecutorCommand"], "commands", <<>>))

\* A URL is held split on "&continuation=": <<before, after, ...>>.
UrlHasContinuation(url) == Len(url) >= 2

\* the sub-shapes of a continuation endpoint after the executor, in the
\* order of lines 170-190 / 261-299: <<>> when none matches, else <<token>>
EndpointToken(endpoint) ==
    LET cmd == Get(endpoint, "continuationCommand", EmptyDict)
        web_cmd == Get(Get(endpoint, "commandMetadata", EmptyDict),
                       "webCommandMetadata", EmptyDict)
        browse == Get(endpoint, "browseEndpoint", EmptyDict)
    IN  IF "token" \in DOMAIN cmd THEN << cmd["token"] >>
        ELSE IF "url" \in DOMAIN web_cmd /\ UrlHasContinuation(web_cmd["url"])
             THEN << web_cmd["url"][2] >>
        ELSE IF "token" \in DOMAIN endpoint THEN << endpoint["token"] >>
        ELSE IF "params" \in DOMAIN browse THEN << browse["params"] >>
        ELSE <<>>

\* the token of one continuationItemRenderer: <<>> or <<token>>
PlaylistItemToken(continuation_renderer) ==
    IF "continuation" \in DOMAIN continuation_renderer
    THEN << continuation_renderer["continuation"] >>
    ELSE IF "continuationEndpoint" \in DOMAIN continuation_renderer
    THEN LET endpoint == continuation_renderer["continuationEndpoint"]
             executor_token == extract_continuation_token_from_command_executor(endpoint)
         IN  IF ~Falsy(executor_token) THEN << executor_token >>
             ELSE EndpointToken(endpoint)
    ELSE <<>>

\* tabs[0]. ... .contents[0].playlistVideoListRenderer.contents, as
\* [raised, contents]: indexing an empty list raises
PlaylistContents(initial_data) ==
    LET none == [raised |-> TRUE, contents |-> <<>>]
        tabs == Get(Get(Get(initial_data, "contents", EmptyDict),
                        "twoColumnBrowseResultsRenderer", EmptyDict), "tabs", <<>>)
    IN  IF tabs = <<>> THEN none
        ELSE LET sections == Get(Get(Get(Get(tabs[1], "tabRenderer", EmptyDict),
                                         "content", EmptyDict),
                                     "sectionListRenderer", EmptyDict), "contents", <<>>)
             IN  IF sections = <<>> THEN none
                 ELSE LET lists == Get(Get(sections[1], "itemSectionRenderer", EmptyDict),
                                       "contents", <<>>)
                      IN  IF lists = <<>> THEN none
                          ELSE [raised |-> FALSE,
                                contents |-> Get(Get(lists[1], "playlistVideoListRenderer",
                                                     EmptyDict), "contents", <<>>)]

\* the first token among the continuation items of the content list; a
\* continuation item without a token of any shape is passed over
RECURSIVE FirstPlaylistToken(_)
FirstPlaylistToken(contents) ==
    IF contents = <<>> THEN <<>>
    ELSE LET found == IF "continuationItemRenderer" \in DOMAIN Head(contents)
                      THEN PlaylistItemToken(Head(contents)["continuationItemRenderer"])
                      ELSE <<>>
         IN  IF found # <<>> THEN found ELSE FirstPlaylistToken(Tail(contents))

\* the menu action of the header that carries a token
RECURSIVE FirstMenuToken(_)
FirstMenuToken(actions) ==
    IF actions = <<>> THEN <<>>
    ELSE LET token == Get(Get(Get(Get(Head(actions), "menuAction", EmptyDict),
                                  "menuServiceItemRenderer", EmptyDict),
                              "serviceEndpoint", EmptyDict),
                          "continuationCommand", EmptyDict)
             value == Get(token, "token", None)
         IN  IF "menuAction" \in DOMAIN Head(actions) /\ ~Falsy(value)
             THEN << value >>
             ELSE FirstMenuToken(Tail(actions))

\* playlist.py _extract_continuation_token: the token, or None
PlaylistExtractContinuationToken(initial_data) ==
    LET list == PlaylistContents(initial_data)
        direct == FirstPlaylistToken(list.contents)
        menu == FirstMenuToken(
                    Get(Get(Get(initial_data, "header", EmptyDict),
                            "playlistHeaderRenderer", EmptyDict), "playlistActions", <<>>))
        secondary == Get(Get(Get(Get(Get(initial_data, "contents", EmptyDict),
                                     "twoColumnBrowseResultsRenderer", EmptyDict),
                                 "secondaryContents", EmptyDict),
                             "secondaryContents", EmptyDict),
                         "continuationItemRenderer", EmptyDict)
        endpoint == Get(secondary, "continuationEndpoint", EmptyDict)
    IN  IF list.raised THEN None
        ELSE IF direct # <<>> THEN direct[1]
        ELSE IF menu # <<>> THEN menu[1]
        ELSE IF "continuationCommand" \in DOMAIN endpoint
             THEN Get(endpoint["continuationCommand"], "token", None)
        ELSE None

\* lines 324-339 / 509-524, when no int() raises
PlaylistDuration(video_renderer, video_info) ==
    IF LengthText(video_renderer) = <<>> THEN video_info
    ELSE Update(video_info,
                [duration |-> LengthText(video_renderer),
                 duration_seconds |->
                     DurationSeconds(Split(LengthText(video_renderer), ":"))])

\* the record of one playlistVideoRenderer item: <<>> or <<info>> (when
\* building it does not raise)
PlaylistVideoInfo(item) ==
    LET video_renderer == Get(item, "playlistVideoRenderer", EmptyDict)
        video_id == Get(video_renderer, "videoId", None)
    IN  IF DOMAIN video_renderer = {} \/ Falsy(video_id) THEN <<>>
        ELSE LET video_info ==
                     [video_id |-> video_id,
                      thumbnails |-> get_thumbnail_urls(video_id),
                      url |-> WatchUrl(video_id),
                      index |-> Get(Get(video_renderer, "index", EmptyDict), "simpleText", "")]
                 title_runs == Get(Get(video_renderer, "title", EmptyDict), "runs", <<>>)
             IN  << PlaylistDuration(video_renderer,
                        IF title_runs # <<>>
                        THEN Update(video_info, Entry("title", JoinRuns(title_runs)))
                        ELSE video_info) >>

\* the loop of _extract_playlist_videos; st is [videos, token].  An
\* exception ends the loop with what it held (lines 406-407).
RECURSIVE PlaylistFirstLoop(_, _, _)
PlaylistFirstLoop(contents, st, max) ==
    IF contents = <<>> THEN st
    ELSE LET item == Head(contents) IN
         IF "continuationItemRenderer" \in DOMAIN item
         THEN LET found == PlaylistItemToken(item["continuationItemRenderer"]) IN
              PlaylistFirstLoop(Tail(contents),
                  [st EXCEPT !.token = IF found # <<>> THEN found[1] ELSE st.token], max)
         ELSE IF Len(st.videos) >= max THEN st
         ELSE IF RendererRaises(Get(item, "playlistVideoRenderer", EmptyDict)) THEN st
         ELSE PlaylistFirstLoop(Tail(contents),
                  [st EXCEPT !.videos = st.videos \o PlaylistVideoInfo(item)], max)

\* _extract_playlist_videos: [videos, token]
extract_playlist_videos(initial_data, max) ==
    LET list == PlaylistContents(initial_data)
        st == PlaylistFirstLoop(list.contents, [videos |-> <<>>, token |-> None], max)
    IN  IF st.token = None /\ Len(st.videos) < max
        THEN [st EXCEPT !.token = PlaylistExtractContinuationToken(initial_data)]
        ELSE st

\* lines 462-476: the last continuation item with a readable token decides
RECURSIVE PlaylistNextContinuation(_, _)
PlaylistNextContinuation(items, next) ==
    IF items = <<>> THEN next
    ELSE LET renderer == Get(Head(items), "continuationItemRenderer", EmptyDict)
             endpoint == Get(renderer, "continuationEndpoint", EmptyDict)
             token == extract_continuation_token_from_command_executor(endpoint)
             found == IF "continuationItemRenderer" \notin DOMAIN Head(items)
                         \/ "continuationEndpoint" \notin DOMAIN renderer
                      THEN next
                      ELSE IF ~Falsy(token) THEN token
                      ELSE IF "continuationCommand" \in DOMAIN endpoint
                           THEN Get(endpoint["continuationCommand"], "token", None)
                      ELSE next
         IN  PlaylistNextContinuation(Tail(items), found)

\* lines 486-590: the records of the items that are not continuation items
RECURSIVE PlaylistAllItems(_)
PlaylistAllItems(items) ==
    IF items = <<>> THEN <<>>
    ELSE (IF "continuationItemRenderer" \in DOMAIN Head(items) THEN <<>>
          ELSE PlaylistVideoInfo(Head(items)))
         \o PlaylistAllItems(Tail(items))

\* some item of a continuation page raises while its record is built
PlaylistAnyRaises(items) ==
    \E i \in DOMAIN items :
        /\ "continuationItemRenderer" \notin DOMAIN items[i]
        /\ RendererRaises(Get(items[i], "playlistVideoRenderer", EmptyDict))

\* playlist.py _fetch_continuation_page on a response: [videos, token];
\* every failure, an exception included (lines 594-596), is ([], None)
PlaylistFetchContinuationPage(token, response) ==
    LET nothing == [videos |-> <<>>, token |-> None] IN
    IF Falsy(token) \/ response.kind # "ok" THEN nothing
    ELSE LET actions == Get(response.data, "onResponseReceivedActions", <<>>)
             continuation_items ==
                 IF actions # <<>> /\ "appendContinuationItemsAction" \in DOMAIN actions[1]
                 THEN Get(actions[1]["appendContinuationItemsAction"],
                          "continuationItems", <<>>)
                 ELSE <<>>
         IN  IF continuation_items = <<>> \/ PlaylistAnyRaises(continuation_items)
             THEN nothing
             ELSE [videos |-> PlaylistAllItems(continuation_items),
                   token |-> PlaylistNextContinuation(continuation_items, None)]

\* line 639: while continuation_token and len(all_videos) < max_results
\*           and page_count < 20
PlaylistWhile(token, all, max, pages) ==
    ~Falsy(token) /\ Len(all) < max /\ pages < PlaylistPageCeiling

\* lines 644-647: a page without videos ends the loop
PlaylistOnEmptyPage(all, token, pages) ==
    [brk |-> TRUE, all |-> all, token |-> token, pages |-> pages]

\* lines 661-669: the value returned after the loop
PlaylistReturn(playlist_info, all, pages, max) ==
    LET counted == Update(playlist_info,
                       [videos_count |-> Len(all),
                        pages_fetched |-> pages,
                        videos |-> Slice(all, max)])
    IN  IF "video_count" \in DOMAIN counted /\ counted["video_count"] > Len(all)
        THEN Update(counted, Entry("total_videos", counted["video_count"]))
        ELSE counted

\* lines 611-632: up to the loop.  [ret, result, info, all, token, pages, fetched]
PlaylistBegin(url_or_id, max, response) ==
    LET stop(msg, n) == [ret |-> TRUE, result |-> [error |-> msg], info |-> EmptyDict,
                         all |-> <<>>, token |-> None, pages |-> 0, fetched |-> n]
        playlist_id == extract_playlist_id(url_or_id)
    IN
    IF Falsy(playlist_id) THEN stop("Invalid YouTube playlist ID or URL", 0)
    ELSE IF response.kind = "nodata" THEN stop("Failed to fetch playlist data", 1)
    ELSE IF response.kind = "undecodable" \/ DOMAIN response.data = {}
         THEN stop("Failed to extract playlist data", 1)
    ELSE LET first == extract_playlist_videos(response.data, max) IN
         [ret |-> FALSE, result |-> EmptyDict,
          info |-> Update([playlist_id |-> playlist_id,
                           playlist_url |-> PlaylistUrl(playlist_id)],
                          extract_playlist_metadata(response.data)),
          all |-> first.videos, token |-> first.token, pages |-> 1, fetched |-> 1]

\* lines 640-659: one pass of the loop body on the response to its request
PlaylistIteration(all, token, pages, max, response) ==
    LET page == PlaylistFetchContinuationPage(token, response) IN
    IF page.videos = <<>> THEN PlaylistOnEmptyPage(all, token, pages)
    ELSE [brk |-> Falsy(ReplaceToken(token, page.token)),
          all |-> ExtendWithinQuota(all, page.videos, max),
          token |-> ReplaceToken(token, page.token),
          pages |-> CountPage(pages)]

---------------------------------------------------------------------------
(* video.py *)

\* the characters of [A-Za-z0-9_-]
IdAlphabet == "ABCDEFGHIJKLMNOPQRSTUVWXYZabcdefghijklmnopqrstuvwxyz0123456789_-"

IsIdChar(c) == \E i \in 1..Len(IdAlphabet) : SubSeq(IdAlphabet, i, i) = c

\* is_valid_video_id: re.match(r"^[A-Za-z0-9_-]{11}$", video_id); "$" also
\* matches before a newline that ends the string
is_valid_video_id(video_id) ==
    LET matched == IF Len(video_id) = 12 /\ SubSeq(video_id, 12, 12) = "\n"
                   THEN SubSeq(video_id, 1, 11)
                   ELSE video_id
    IN  /\ ~Falsy(video_id)
        /\ Len(matched) = 11
        /\ \A i \in 1..11 : IsIdChar(SubSeq(matched, i, i))

\* parsed_url.path, from its elements
RECURSIVE PathText(_)
PathText(path) ==
    IF path = <<>> THEN "" ELSE "/" \o Head(path) \o PathText(Tail(path))

\* extract_video_id: the id, None, or the falsy argument itself ("" / None).
\* parsed_url.path.split("/") is "" followed by the path elements.
extract_video_id(url_or_id) ==
    IF url_or_id.kind = "none" THEN None
    ELSE IF url_or_id.text = "" \/ is_valid_video_id(url_or_id.text) THEN url_or_id.text
    ELSE LET path == url_or_id.path
             has(word) == InText(word, PathText(path))
             checked(id) == IF ~Falsy(id) /\ is_valid_video_id(id) THEN id ELSE None
         IN  IF InText("youtube.com", url_or_id.host)
             THEN IF has("watch") THEN checked(url_or_id.v)
                  ELSE IF has("embed") \/ has("shorts")
                       THEN checked(IF Len(path) > 1 THEN path[2] ELSE None)
                  ELSE None
             ELSE IF InText("youtu.be", url_or_id.host)
                  THEN checked(IF Len(path) > 0 THEN path[1] ELSE None)
             ELSE None

TwoDigits(n) == IF n < 10 THEN "0" \o ToString(n) ELSE ToString(n)

\* str(timedelta(seconds=n)) for 0 <= n
FormatTimedelta(n) ==
    LET days == n \div 86400
        rest == n % 86400
        clock == ToString(rest \div 3600) \o ":" \o TwoDigits((rest % 3600) \div 60)
                     \o ":" \o TwoDigits(rest % 60)
    IN  IF days = 0 THEN clock
        ELSE IF days = 1 THEN "1 day, " \o clock
        ELSE ToString(days) \o " days, " \o clock

\* line 15: the request payload shared by the calls of the module
INNERTUBE_PAYLOAD_BASE ==
    [context |-> [client |-> [clientName |-> "WEB",
                              clientVersion |-> "2.20220502.01.00",
                              hl |-> "en"]]]

\* lines 73-74: the payload of one request is a copy of the shared one with
\* the key videoId set on the copy.  [request, base]
InnerTubePayload(base, video_id) ==
    [request |-> Update(base, Entry("videoId", video_id)), base |-> base]

\* lines 92-119: the fields taken from videoDetails (lengthSeconds and
\* viewCount are held as the integers their digits spell)
VideoDetailsUpdate(video_details) ==
    LET length_seconds == Get(video_details, "lengthSeconds", 0) IN
    [video_id |-> Get(video_details, "videoId", None),
     title |-> Get(video_details, "title", None),
     duration |-> IF length_seconds # 0 THEN FormatTimedelta(length_seconds) ELSE None,
     duration_seconds |-> length_seconds,
     views_count |-> Get(video_details, "viewCount", None),
     description |-> Get(video_details, "shortDescription", None),
     channel_id |-> Get(video_details, "channelId", None),
     author_name |-> Get(video_details, "author", None),
     is_live |-> Get(video_details, "isLiveContent", FALSE),
     is_private |-> Get(video_details, "isPrivate", FALSE),
     keywords |-> Get(video_details, "keywords", <<>>)]

\* lines 84-85, 214-215: what get_video_info returns when the player
\* response holds no data, and when it cannot be decoded
VideoOnNoData(video_info) == video_info

VideoOnDecodeError(video_info) ==
    Update(video_info, Entry("error", "Error fetching video information"))

\* lines 122-127: one of the calls made on the microformat raises (the like
\* count is parsed by parse_view_count, which does not)
MicroformatRaises(microformat) ==
    \/ parse_iso8601_date(Get(microformat, "publishDate", None)).raised
    \/ parse_iso8601_date(Get(microformat, "uploadDate", None)).raised

\* what a parser returned: the integer, or None
OptionalInt(parsed) == IF parsed.returned = "int" THEN parsed.value ELSE None

\* lines 129-143: the fields taken from the microformat
MicroformatUpdate(microformat) ==
    LET likes == IF "likeCount" \in DOMAIN microformat
                 THEN parse_view_count(microformat["likeCount"])
                 ELSE [returned |-> "None", value |-> 0]
    IN
    [publish_date_text |-> Get(microformat, "publishDate", None),
     publish_date |-> OptionalInt(parse_iso8601_date(Get(microformat, "publishDate", None))),
     upload_date_text |-> Get(microformat, "uploadDate", None),
     upload_date |-> OptionalInt(parse_iso8601_date(Get(microformat, "uploadDate", None))),
     category |-> Get(microformat, "category", None),
     family_friendly |-> Get(microformat, "isFamilySafe", FALSE),
     available_countries |-> Get(microformat, "availableCountries", <<>>),
     owner_channel_name |-> Get(microformat, "ownerChannelName", None),
     likes_count |-> OptionalInt(likes)]

\* lines 176-213: the formats of streamingData (itag, url, mimeType and
\* quality of each; the sizes and rates are not read by this model)
VideoFormats(player_response, video_info) ==
    LET listed == Get(Get(player_response, "streamingData", EmptyDict), "formats", <<>>)
        formats == [i \in DOMAIN listed |->
                       [itag |-> Get(listed[i], "itag", None),
                        url |-> Get(listed[i], "url", None),
                        mimeType |-> Get(listed[i], "mimeType", ""),
                        quality |-> Get(listed[i], "quality", None)]]
    IN  IF "streamingData" \in DOMAIN player_response /\ formats # <<>>
        THEN Update(video_info, Entry("formats", formats))
        ELSE video_info

\* get_video_info (videoDetails, microformat and streamingData; the end
\* screen is not read by this model).  An exception raised after line 76
\* ends the work there and adds the error.  [result, fetched]
get_video_info(url_or_id, response) ==
    LET video_id == extract_video_id(url_or_id) IN
    IF Falsy(video_id)
    THEN [result |-> [error |-> "Invalid YouTube video ID or URL"], fetched |-> 0]
    ELSE LET video_info == [video_id |-> video_id,
                            thumbnails |-> get_thumbnail_urls(video_id)]
         IN  [fetched |-> 1,
              result |->
                 IF response.kind = "nodata" THEN VideoOnNoData(video_info)
                 ELSE IF response.kind = "undecodable" THEN VideoOnDecodeError(video_info)
                 ELSE LET video_details == Get(response.data, "videoDetails", EmptyDict)
                          microformat == Get(Get(response.data, "microformat", EmptyDict),
                                             "playerMicroformatRenderer", EmptyDict)
                          detailed == IF DOMAIN video_details # {}
                                      THEN Update(video_info,
                                                  VideoDetailsUpdate(video_details))
                                      ELSE video_info
                      IN  IF DOMAIN microformat = {}
                          THEN VideoFormats(response.data, detailed)
                          ELSE IF MicroformatRaises(microformat)
                          THEN VideoOnDecodeError(detailed)
                          ELSE VideoFormats(response.data,
                                   Update(detailed, MicroformatUpdate(microformat)))]

---------------------------------------------------------------------------
(* channel.py *)

\* re.search(r"([\d\.,]+)([MK]?)", text): the first run of digits, dots and
\* commas, as long as it goes, and the M or K that follows it
CountRun(text) ==
    LET inClass(i) == IsDigit(SubSeq(text, i, i)) \/ SubSeq(text, i, i) \in {".", ","}
        starts == {i \in 1..Len(text) : inClass(i)}
        first == CHOOSE i \in starts : \A j \in starts : i <= j
        last == CHOOSE j \in first..Len(text) :
                    /\ \A k \in first..j : inClass(k)
                    /\ j = Len(text) \/ ~inClass(j + 1)
        unit == IF last < Len(text) /\ SubSeq(text, last + 1, last + 1) \in {"M", "K"}
                THEN SubSeq(text, last + 1, last + 1)
                ELSE ""
    IN  IF starts = {} THEN [matched |-> FALSE]
        ELSE [matched |-> TRUE, num |-> SubSeq(text, first, last), unit |-> unit]

\* float(s) raises ValueError on a string of digits and dots that has no
\* digit or more than one dot
FloatRaises(s) == CountOf(s, ".") > 1 \/ CountOf(s, ".") = Len(s)

\* int(float(s) * factor) for a string float takes, in exact arithmetic
ScaledInt(s, factor) ==
    LET dot == IF CountOf(s, ".") = 0 THEN Len(s) + 1
               ELSE CHOOSE i \in 1..Len(s) : SubSeq(s, i, i) = "."
        whole == SubSeq(s, 1, dot - 1)
        fraction == SubSeq(s, dot + 1, Len(s))
    IN  NumberOf(whole) * factor
            + (NumberOf(fraction) * factor) \div Power10(Len(fraction))

\* _parse_count(text) for a string: [raised, value]
parse_count(text) ==
    LET match == CountRun(text)
        num == Without(match.num, ",")
        factor == IF match.unit = "M" THEN 1000000
                  ELSE IF match.unit = "K" THEN 1000 ELSE 1
    IN  IF text = "" \/ ~match.matched THEN [raised |-> FALSE, value |-> 0]
        ELSE IF FloatRaises(num) THEN [raised |-> TRUE, value |-> 0]
        ELSE [raised |-> FALSE, value |-> ScaledInt(num, factor)]

\* needle in text, for texts held as sequences of characters
Contains(text, needle) ==
    \E i \in 1..(Len(text) - Len(needle) + 1) :
        SubSeq(text, i, i + Len(needle) - 1) = needle

ShelfKeywords ==
    { <<"V", "i", "d", "e", "o">>, <<"U", "p", "l", "o", "a", "d">>,
      <<"R", "e", "c", "e", "n", "t">> }

\* _extract_text on a text container (a dict)
extract_text(data) ==
    IF DOMAIN data = {} THEN ""
    ELSE IF "simpleText" \in DOMAIN data THEN data["simpleText"]
    ELSE IF "runs" \in DOMAIN data THEN JoinRuns(data["runs"])
    ELSE IF "content" \in DOMAIN data THEN data["content"]
    ELSE ""

\* extract_channel_id_from_input: the id, or None
extract_channel_id_from_input(channel_input) ==
    IF NotGiven(channel_input) THEN None
    ELSE IF channel_input.shape = "channel_id" THEN channel_input.text
    ELSE IF channel_input.host = "youtube.com" /\ Len(channel_input.path) >= 2
            /\ channel_input.path[1] = "channel"
         THEN channel_input.path[2]
    ELSE None

ChannelUrl(channel_id) == "https://www.youtube.com/channel/" \o channel_id

\* _extract_video_info (identity and title; overlays, counts and badges are
\* not read by this model): <<>> or <<info>>
extract_video_info(video_renderer) ==
    LET video_id == Get(video_renderer, "videoId", "") IN
    IF DOMAIN video_renderer = {} \/ Falsy(video_id) THEN <<>>
    ELSE << [video_id |-> video_id,
             url |-> WatchUrl(video_id),
             thumbnails |-> get_thumbnail_urls(video_id),
             title |-> extract_text(Get(video_renderer, "title", EmptyDict))] >>

\* the records of items[:max_videos], each read under key
RECURSIVE GridVideos(_)
GridVideos(items) ==
    IF items = <<>> THEN <<>>
    ELSE extract_video_info(Get(Head(items), "gridVideoRenderer", EmptyDict))
         \o GridVideos(Tail(items))

ChannelTabs(initial_data) ==
    Get(Get(Get(initial_data, "contents", EmptyDict),
            "twoColumnBrowseResultsRenderer", EmptyDict), "tabs", <<>>)

TabSections(tab_renderer) ==
    Get(Get(Get(tab_renderer, "content", EmptyDict), "sectionListRenderer", EmptyDict),
        "contents", <<>>)

\* lines 598-613: every grid of every section of a Videos tab
RECURSIVE VideosTabItems(_, _)
VideosTabItems(item_section, max_videos) ==
    IF item_section = <<>> THEN <<>>
    ELSE LET grid_renderer == Get(Head(item_section), "gridRenderer", EmptyDict) IN
         (IF DOMAIN grid_renderer = {} THEN <<>>
          ELSE GridVideos(Slice(Get(grid_renderer, "items", <<>>), max_videos)))
         \o VideosTabItems(Tail(item_section), max_videos)

\* lines 628-650: every shelf of a Home tab whose title holds a keyword
RECURSIVE HomeTabItems(_, _)
HomeTabItems(item_section, max_videos) ==
    IF item_section = <<>> THEN <<>>
    ELSE LET shelf_renderer == Get(Head(item_section), "shelfRenderer", EmptyDict)
             title_text == extract_text(Get(shelf_renderer, "title", EmptyDict))
             items == Get(Get(Get(shelf_renderer, "content", EmptyDict),
                              "horizontalListRenderer", EmptyDict), "items", <<>>)
         IN  (IF DOMAIN shelf_renderer # {}
                 /\ \E keyword \in ShelfKeywords : Contains(title_text, keyword)
              THEN GridVideos(Slice(items, max_videos))
              ELSE <<>>)
             \o HomeTabItems(Tail(item_section), max_videos)

\* lines 661-677: every shelf of the secondary column
RECURSIVE SecondaryItems(_, _)
SecondaryItems(items, max_videos) ==
    IF items = <<>> THEN <<>>
    ELSE LET content == Get(Get(Head(items), "shelfRenderer", EmptyDict),
                            "content", EmptyDict)
         IN  (IF "shelfRenderer" \in DOMAIN Head(items)
                 /\ "horizontalListRenderer" \in DOMAIN content
              THEN GridVideos(Slice(Get(content["horizontalListRenderer"], "items", <<>>),
                                    max_videos))
              ELSE <<>>)
             \o SecondaryItems(Tail(items), max_videos)

\* section.get("itemSectionRenderer", {}).get("contents", [])
SectionContents(section) ==
    Get(Get(section, "itemSectionRenderer", EmptyDict), "contents", <<>>)

RECURSIVE VideosTabSections(_, _)
VideosTabSections(sections, max_videos) ==
    IF sections = <<>> THEN <<>>
    ELSE VideosTabItems(SectionContents(Head(sections)), max_videos)
         \o VideosTabSections(Tail(sections), max_videos)

RECURSIVE HomeTabSections(_, _)
HomeTabSections(sections, max_videos) ==
    IF sections = <<>> THEN <<>>
    ELSE HomeTabItems(SectionContents(Head(sections)), max_videos)
         \o HomeTabSections(Tail(sections), max_videos)

RECURSIVE SecondarySections(_, _)
SecondarySections(sections, max_videos) ==
    IF sections = <<>> THEN <<>>
    ELSE SecondaryItems(SectionContents(Head(sections)), max_videos)
         \o SecondarySections(Tail(sections), max_videos)

\* lines 588-616: the first Videos tab that yields a video returns
RECURSIVE VideosTabLoop(_, _, _)
VideosTabLoop(tabs, videos, max_videos) ==
    IF tabs = <<>> THEN [returned |-> FALSE, videos |-> videos]
    ELSE LET tab_renderer == Get(Head(tabs), "tabRenderer", EmptyDict) IN
         IF Get(tab_renderer, "title", None) = "Videos"
         THEN LET found == videos \o VideosTabSections(TabSections(tab_renderer), max_videos)
              IN  IF found # <<>> THEN [returned |-> TRUE, videos |-> found]
                  ELSE VideosTabLoop(Tail(tabs), found, max_videos)
         ELSE VideosTabLoop(Tail(tabs), videos, max_videos)

\* lines 618-650: Home tabs are read while no video is held
RECURSIVE HomeTabLoop(_, _, _)
HomeTabLoop(tabs, videos, max_videos) ==
    IF tabs = <<>> THEN videos
    ELSE LET tab_renderer == Get(Head(tabs), "tabRenderer", EmptyDict) IN
         IF Get(tab_renderer, "title", None) = "Home" /\ videos = <<>>
         THEN HomeTabLoop(Tail(tabs),
                  videos \o HomeTabSections(TabSections(tab_renderer), max_videos),
                  max_videos)
         ELSE HomeTabLoop(Tail(tabs), videos, max_videos)

\* the three locations read one after the other, whatever was found before
extract_channel_videos_additive(initial_data, max_videos) ==
    LET tabs == ChannelTabs(initial_data)
        sections == Get(Get(Get(Get(initial_data, "contents", EmptyDict),
                                "twoColumnBrowseResultsRenderer", EmptyDict),
                            "secondaryContents", EmptyDict),
                        "sectionListRenderer", EmptyDict)
    IN  VideosTabLoop(tabs, <<>>, max_videos).videos
        \o HomeTabLoop(tabs, <<>>, max_videos)
        \o SecondarySections(Get(sections, "contents", <<>>), max_videos)

\* extract_channel_videos
extract_channel_videos(initial_data, max_videos) ==
    LET tabs == ChannelTabs(initial_data)
        first == VideosTabLoop(tabs, <<>>, max_videos)
        home == HomeTabLoop(tabs, first.videos, max_videos)
        sections == Get(Get(Get(Get(initial_data, "contents", EmptyDict),
                                "twoColumnBrowseResultsRenderer", EmptyDict),
                            "secondaryContents", EmptyDict),
                        "sectionListRenderer", EmptyDict)
    IN  IF first.returned THEN first.videos
        ELSE IF home # <<>> THEN home
        ELSE SecondarySections(Get(sections, "contents", <<>>), max_videos)

\* extract_channel_metadata reads four shapes in turn: the page header view
\* model, the c4 tabbed header, the channel metadata and the About tab.
\* This model carries title, description, description_snippet, vanity_url and
\* channel_id; images, counts, dates and links are not read, and the trees
\* of the model hold no attribution text, no canonicalBaseUrl, no
\* primaryLinks and no "/@" in a vanity URL.

\* the concatenation of a list of lists
RECURSIVE Concat(_)
Concat(lists) ==
    IF lists = <<>> THEN <<>> ELSE Head(lists) \o Concat(Tail(lists))

\* lines 214-217: the description of the channel metadata, else of the
\* microformat
DescriptionStage(initial_data) ==
    LET channel_metadata == Get(Get(initial_data, "metadata", EmptyDict),
                                "channelMetadataRenderer", EmptyDict)
        microformat == Get(Get(initial_data, "microformat", EmptyDict),
                           "microformatDataRenderer", EmptyDict)
    IN  IF ~Falsy(Get(channel_metadata, "description", None))
        THEN Entry("description", channel_metadata["description"])
        ELSE IF ~Falsy(Get(microformat, "description", None))
        THEN Entry("description", microformat["description"])
        ELSE EmptyDict

\* lines 219-246: the page header view model
PageHeaderStage(initial_data, channel_info) ==
    LET page_header == Get(Get(initial_data, "header", EmptyDict),
                           "pageHeaderRenderer", EmptyDict)
        page_header_view_model == Get(Get(page_header, "content", EmptyDict),
                                      "pageHeaderViewModel", EmptyDict)
        dynamic_title == Get(Get(page_header_view_model, "title", EmptyDict),
                             "dynamicTextViewModel", EmptyDict)
        desc_view_model == Get(Get(page_header_view_model, "description", EmptyDict),
                               "descriptionPreviewViewModel", EmptyDict)
        content == Get(Get(desc_view_model, "description", EmptyDict), "content", "")
        titled == Update(channel_info,
                     Entry("title",
                           IF "text" \in DOMAIN dynamic_title
                              /\ "content" \in DOMAIN dynamic_title["text"]
                           THEN dynamic_title["text"]["content"]
                           ELSE Get(page_header, "pageTitle", "")))
    IN  IF DOMAIN page_header = {} THEN channel_info
        ELSE IF "description" \notin DOMAIN desc_view_model THEN titled
        ELSE Update(titled,
                 IF Falsy(Get(channel_info, "description", None))
                 THEN [description |-> content, description_snippet |-> content]
                 ELSE [description_snippet |-> content])

\* lines 331-354: the c4 tabbed header, read while no title is held
C4HeaderStage(initial_data, channel_info) ==
    LET c4_header == Get(Get(initial_data, "header", EmptyDict),
                         "c4TabbedHeaderRenderer", EmptyDict)
        runs == Get(Get(c4_header, "descriptionSnippet", EmptyDict), "runs", <<>>)
        titled == Update(channel_info, Entry("title", Get(c4_header, "title", "")))
    IN  IF DOMAIN c4_header = {} \/ ~Falsy(Get(channel_info, "title", None))
        THEN channel_info
        ELSE IF runs = <<>> THEN titled
        ELSE Update(titled,
                 IF Falsy(Get(channel_info, "description", None))
                 THEN [description |-> JoinRuns(runs), description_snippet |-> JoinRuns(runs)]
                 ELSE [description_snippet |-> JoinRuns(runs)])

\* lines 425-451: the channel metadata
ChannelMetadataStage(initial_data, channel_info) ==
    LET channel_metadata == Get(Get(initial_data, "metadata", EmptyDict),
                                "channelMetadataRenderer", EmptyDict)
        title == IF Falsy(Get(channel_info, "title", None))
                 THEN Entry("title", Get(channel_metadata, "title", ""))
                 ELSE EmptyDict
        vanity == IF ~Falsy(Get(channel_metadata, "vanityChannelUrl", None))
                     /\ Falsy(Get(channel_info, "vanity_url", None))
                  THEN Entry("vanity_url", channel_metadata["vanityChannelUrl"])
                  ELSE EmptyDict
        id == IF Falsy(Get(channel_info, "channel_id", None))
              THEN Entry("channel_id", Get(channel_metadata, "externalId", ""))
              ELSE EmptyDict
    IN  IF DOMAIN channel_metadata = {} THEN channel_info
        ELSE Update(Update(Update(channel_info, title), vanity), id)

\* lines 453-467: the items of every section of every About tab, in order
AboutItems(initial_data) ==
    LET tabs == ChannelTabs(initial_data)
        of(tab_renderer) ==
            IF Get(tab_renderer, "title", None) = "About"
            THEN Concat([k \in DOMAIN TabSections(tab_renderer) |->
                            SectionContents(TabSections(tab_renderer)[k])])
            ELSE <<>>
    IN  Concat([t \in DOMAIN tabs |-> of(Get(tabs[t], "tabRenderer", EmptyDict))])

\* lines 468-546: the About tab renderers.  The channel id is taken while no
\* vanity URL is held (line 541).
RECURSIVE AboutStage(_, _)
AboutStage(items, channel_info) ==
    IF items = <<>> THEN channel_info
    ELSE LET about_renderer == Get(Head(items), "channelAboutFullMetadataRenderer",
                                   EmptyDict)
             text == Get(Get(about_renderer, "description", EmptyDict), "simpleText", None)
             described == IF Falsy(Get(channel_info, "description", None)) /\ ~Falsy(text)
                          THEN Entry("description", text)
                          ELSE EmptyDict
             id == IF Falsy(Get(channel_info, "vanity_url", None))
                      /\ ~Falsy(Get(about_renderer, "channelId", None))
                   THEN Entry("channel_id", about_renderer["channelId"])
                   ELSE EmptyDict
         IN  AboutStage(Tail(items),
                 IF DOMAIN about_renderer = {} THEN channel_info
                 ELSE Update(Update(channel_info, described), id))

\* lines 563-570: the snippet falls back on the description (the texts of
\* the model are shorter than 150 characters)
SnippetStage(channel_info) ==
    IF "description" \in DOMAIN channel_info
       /\ Falsy(Get(channel_info, "description_snippet", None))
    THEN Update(channel_info, Entry("description_snippet", channel_info["description"]))
    ELSE channel_info

extract_channel_metadata(initial_data) ==
    SnippetStage(
        AboutStage(AboutItems(initial_data),
            ChannelMetadataStage(initial_data,
                C4HeaderStage(initial_data,
                    PageHeaderStage(initial_data, DescriptionStage(initial_data))))))

\* lines 700-707: the page fetched for an argument that is a string
ChannelPageUrl(channel_input, channel_id) ==
    IF ~Falsy(channel_id) THEN ChannelUrl(channel_id)
    ELSE IF channel_input.shape = "handle" THEN "https://www.youtube.com/" \o channel_input.text
    ELSE IF channel_input.shape # "url" THEN "https://www.youtube.com/user/" \o channel_input.text
    ELSE channel_input.text

\* lines 717-723: once the page is decoded, get_channel_info writes the
\* structure of initial_data (held here by its top-level keys) to the file
\* initial_data_structure.json of the working directory, over what it held
ChannelInfoWrites(before, channel_input, response) ==
    IF Falsy(extract_channel_id_from_input(channel_input)) /\ channel_input.kind = "none"
    THEN before
    ELSE IF response.kind # "ok" \/ DOMAIN response.data = {} THEN before
    ELSE Update(before, Entry("initial_data_structure.json", DOMAIN response.data))

\* get_channel_info with include_videos=True.  [raised, result, fetched]
get_channel_info(channel_input, max_videos, response) ==
    LET channel_id == extract_channel_id_from_input(channel_input) IN
    IF Falsy(channel_id) /\ channel_input.kind = "none"
    THEN [raised |-> TRUE, result |-> EmptyDict, fetched |-> 0]   \* None.startswith
    ELSE LET url == ChannelPageUrl(channel_input, channel_id) IN
         IF response.kind = "nodata"
         THEN [raised |-> FALSE, fetched |-> 1,
               result |-> [error |-> "Failed to fetch channel data from " \o url]]
         ELSE IF response.kind = "undecodable" \/ DOMAIN response.data = {}
         THEN [raised |-> FALSE, fetched |-> 1,
               result |-> [error |-> "Failed to extract channel data"]]
         ELSE LET initial_data == response.data
                  from_header == Get(Get(Get(initial_data, "header", EmptyDict),
                                         "c4TabbedHeaderRenderer", EmptyDict),
                                     "channelId", None)
                  from_metadata == Get(Get(Get(initial_data, "metadata", EmptyDict),
                                           "channelMetadataRenderer", EmptyDict),
                                       "externalId", None)
                  id == IF ~Falsy(channel_id) THEN channel_id
                        ELSE IF ~Falsy(from_header) THEN from_header
                        ELSE from_metadata
                  channel_info == [channel_id |-> id,
                                   channel_url |-> IF ~Falsy(id) THEN ChannelUrl(id) ELSE url]
                  videos == extract_channel_videos(initial_data, max_videos)
              IN  [raised |-> FALSE, fetched |-> 1,
                   result |-> Update(Update(channel_info,
                                            extract_channel_metadata(initial_data)),
                                     [videos_count |-> Len(videos), videos |-> videos])]

\* get_channel_videos: get_channel_info, cut down to four keys.
\* [raised, result]
get_channel_videos(channel_input, max_results_, response) ==
    LET called == get_channel_info(channel_input, max_results_, response)
        channel_info == called.result
    IN  IF called.raised \/ "error" \in DOMAIN channel_info
        THEN [raised |-> called.raised, result |-> channel_info]
        ELSE [raised |-> FALSE,
              result |-> [channel_id |-> Get(channel_info, "channel_id", ""),
                          channel_title |-> Get(channel_info, "title", ""),
                          videos_count |-> Get(channel_info, "videos_count", 0),
                          videos |-> Get(channel_info, "videos", <<>>)]]

---------------------------------------------------------------------------
(* The environment: the pages the site serves. *)

Kinds == {"video", "noid", "emptyid"}

SeqsUpTo(S, n) == UNION {[1..k -> S] : k \in 0..n}

CountVideos(shape) == Cardinality({i \in DOMAIN shape : shape[i] = "video"})

\* pages are described by the kinds of their renderers, in order: pages of
\* renderers with an id, and short pages with one renderer without
PageShapes ==
    {shape \in SeqsUpTo(Kinds, MaxMixed) : CountVideos(shape) = Len(shape) - 1}
        \cup SeqsUpTo({"video"}, MaxPageVideos)

VideoId(n) == "v" \o ToString(n)

\* the renderers of a page: the k-th valid video of the whole listing has id vk
MakeItems(shape, base, key) ==
    [i \in DOMAIN shape |->
        Entry(key,
              CASE shape[i] = "video" ->
                       [videoId |-> VideoId(base + CountVideos(SubSeq(shape, 1, i)))]
                [] shape[i] = "noid" ->
                       [title |-> [runs |-> <<[text |-> "no id"]>>]]
                [] OTHER -> [videoId |-> ""])]

ContinuationItem(token) ==
    [continuationItemRenderer |->
        [continuationEndpoint |-> [continuationCommand |-> [token |-> token]]]]

\* the token after prev in the rotation
FreshToken(prev) == IF prev = Tokens[1] THEN Tokens[2] ELSE Tokens[1]

\* a first search page: one item section, then the continuation item either
\* beside it or inside it
SearchInitialData(shape, token, nested, base) ==
    LET items == MakeItems(shape, base, "videoRenderer")
        contents ==
            IF token = None THEN << [itemSectionRenderer |-> [contents |-> items]] >>
            ELSE IF nested
            THEN << [itemSectionRenderer |->
                        [contents |-> Append(items, ContinuationItem(token))]] >>
            ELSE << [itemSectionRenderer |-> [contents |-> items]],
                    ContinuationItem(token) >>
    IN  [contents |-> [twoColumnSearchResultsRenderer |-> [primaryContents |->
            [sectionListRenderer |-> [contents |-> contents]]]]]

\* a search continuation envelope
SearchContinuationData(shape, token, base) ==
    LET section == [itemSectionRenderer |->
                       [contents |-> MakeItems(shape, base, "videoRenderer")]]
    IN  [onResponseReceivedCommands |-> <<
            [appendContinuationItemsAction |->
                [continuationItems |->
                    IF token = None THEN << section >>
                    ELSE << section, ContinuationItem(token) >>]] >>]

\* what a fetch can bring: a failure, or a page of some shape with or
\* without a token
Failures == {[kind |-> "nodata"], [kind |-> "undecodable"]}
PageChoices(prev) ==
    [kind : {"ok"}, shape : PageShapes, token : {None, FreshToken(prev)}]

\* a first playlist page: the sidebar, and the video list with its
\* continuation item last
PlaylistInitialData(shape, token, base) ==
    LET items == MakeItems(shape, base, "playlistVideoRenderer")
        listed == IF token = None THEN items ELSE Append(items, ContinuationItem(token))
    IN  [sidebar |-> [playlistSidebarRenderer |-> [items |-> <<
            [playlistSidebarPrimaryInfoRenderer |->
                [title |-> [runs |-> <<[text |-> "Mix"]>>]]],
            [playlistSidebarSecondaryInfoRenderer |-> EmptyDict] >>]],
         contents |-> [twoColumnBrowseResultsRenderer |-> [tabs |-> <<
            [tabRenderer |-> [content |-> [sectionListRenderer |-> [contents |-> <<
                [itemSectionRenderer |-> [contents |-> <<
                    [playlistVideoListRenderer |-> [contents |-> listed]] >>]] >>]]]] >>]]]

\* a playlist continuation envelope
PlaylistContinuationData(shape, token, base) ==
    LET items == MakeItems(shape, base, "playlistVideoRenderer") IN
    [onResponseReceivedActions |-> <<
        [appendContinuationItemsAction |->
            [continuationItems |->
                IF token = None THEN items ELSE Append(items, ContinuationItem(token))]] >>]

\* player responses: no videoDetails, videoDetails naming the video asked
\* for, another one, or none
VideoTrees(video_id) ==
    { [playabilityStatus |-> [status |-> "ERROR"]],
      [videoDetails |-> [videoId |-> video_id, title |-> "Clip", lengthSeconds |-> 212]],
      [videoDetails |-> [videoId |-> "zzzzzzzzzzz", title |-> "Clip"]],
      [videoDetails |-> [title |-> "Clip", lengthSeconds |-> 3723]] }

\* a channel page: a shape in one of the three listing locations, a second
\* shape in the next one, with or without the channelMetadataRenderer
ShelfOf(title, items) ==
    [shelfRenderer |-> [title |-> [simpleText |-> title],
                        content |-> [horizontalListRenderer |-> [items |-> items]]]]

SectionOf(node) == [itemSectionRenderer |-> [contents |-> << node >>]]

TabOf(title, node) ==
    [tabRenderer |-> [title |-> title,
                      content |-> [sectionListRenderer |-> [contents |-> << SectionOf(node) >>]]]]

UploadsTitle == <<"U", "p", "l", "o", "a", "d", "s">>

ChannelLocations == <<"videos", "home", "secondary">>

LocationNode(loc, items) ==
    IF loc = "videos" THEN [gridRenderer |-> [items |-> items]]
    ELSE ShelfOf(UploadsTitle, items)

ChannelInitialData(at, shape, later, metadata) ==
    LET first == MakeItems(shape, 0, "gridVideoRenderer")
        second == MakeItems(later, CountVideos(shape), "gridVideoRenderer")
        items(loc) == IF ChannelLocations[at] = loc THEN first
                      ELSE IF at < 3 /\ ChannelLocations[at + 1] = loc THEN second
                      ELSE <<>>
        browse == [tabs |-> << TabOf("Home", LocationNode("home", items("home"))),
                               TabOf("Videos", LocationNode("videos", items("videos"))) >>,
                   secondaryContents |-> [sectionListRenderer |-> [contents |->
                       << SectionOf(LocationNode("secondary", items("secondary"))) >>]]]
        tree == [contents |-> [twoColumnBrowseResultsRenderer |-> browse]]
    IN  IF metadata
        THEN Update(tree, Entry("metadata",
                 [channelMetadataRenderer |->
                     [title |-> "Channel", externalId |-> "UCmetadata0000000000000"]]))
        ELSE tree

ChannelShapes == SeqsUpTo(Kinds, MaxMixed)

ChannelChoices ==
    [kind : {"ok"}, at : 1..3, shape : ChannelShapes,
     later : SeqsUpTo({"video"}, 1), metadata : BOOLEAN]

---------------------------------------------------------------------------
(* The arguments tried. *)

Queries == { NoneInput, PlainStr("", "empty"), PlainStr("cats", "junk") }

PlaylistInputs ==
    { NoneInput, PlainStr("", "empty"), PlainStr("PLmix", "plain"),
      Str("https://www.youtube.com/playlist?list=PLmix", "url", "youtube.com",
          <<"playlist">>, None, "PLmix"),
      Str("https://www.youtube.com/playlist", "url", "youtube.com",
          <<"playlist">>, None, None),
      PlainStr("not a playlist!", "junk") }

VideoInputs ==
    { NoneInput, PlainStr("", "empty"), PlainStr("dQw4w9WgXcQ", "video_id"),
      PlainStr("dQw4w9WgXcQ1", "plain"),
      Str("https://www.youtube.com/watch?v=dQw4w9WgXcQ", "url", "youtube.com",
          <<"watch">>, "dQw4w9WgXcQ", None),
      Str("https://www.youtube.com/watch?v=dQw4w9WgXcQ1", "url", "youtube.com",
          <<"watch">>, "dQw4w9WgXcQ1", None),
      Str("https://youtu.be/dQw4w9WgXcQ", "url", "youtu.be",
          <<"dQw4w9WgXcQ">>, None, None),
      Str("https://example.com/watch?v=dQw4w9WgXcQ", "url", "other",
          <<"watch">>, "dQw4w9WgXcQ", None) }

ChannelInputs ==
    { NoneInput, PlainStr("", "empty"),
      PlainStr("UCabcdefghijklmnopqrstuv", "channel_id"),
      PlainStr("@handle", "handle"),
      PlainStr("someuser", "plain"),
      Str("https://www.youtube.com/channel/UCabcdefghijklmnopqrstuv", "url",
          "youtube.com", <<"channel", "UCabcdefghijklmnopqrstuv">>, None, None),
      Str("https://example.com/x", "url", "other", <<"x">>, None, None) }

Ops == {"search", "playlist", "video", "channel"}

InputsOf(o) ==
    CASE o = "search" -> Queries
      [] o = "playlist" -> PlaylistInputs
      [] o = "video" -> VideoInputs
      [] OTHER -> ChannelInputs

\* the quotas tried with an argument: the large one with bare ids only
QuotasOf(o, arg) ==
    CASE o = "video" -> {0}
      [] o = "channel" -> ChannelQuotaValues
      [] OTHER -> IF arg.kind = "str" /\ arg.shape = "url"
                  THEN QuotaValues \ {LargeQuota} ELSE QuotaValues

---------------------------------------------------------------------------
(* The runs. *)

Init ==
    /\ op \in Ops
    /\ input \in InputsOf(op)
    /\ max_results \in QuotasOf(op, input)
    /\ pc = "start"
    /\ info = EmptyDict
    /\ all_results = <<>>
    /\ continuation_token = None
    /\ page_count = 0
    /\ result = EmptyDict
    /\ raised = FALSE
    /\ issued = 0
    /\ firstFetch = "none"
    /\ lastRequest = None
    /\ lastPageToken = None
    /\ failed = FALSE
    /\ produced = 0
    /\ anyEmpty = FALSE
    /\ allFive = TRUE
    /\ dropped = FALSE
    /\ files = EmptyDict
    /\ payload_base = INNERTUBE_PAYLOAD_BASE

\* a renderer without id comes before one with an id
SkipsThenEmits(shape) ==
    \E i, j \in DOMAIN shape : i < j /\ shape[i] # "video" /\ shape[j] = "video"

\* the history of a served page
Served(choice) ==
    /\ produced' = produced + CountVideos(choice.shape)
    /\ anyEmpty' = (anyEmpty \/ CountVideos(choice.shape) = 0)
    /\ allFive' = (allFive /\ CountVideos(choice.shape) = 5)
    /\ lastPageToken' = choice.token

NotServed == UNCHANGED <<produced, anyEmpty, allFive, lastPageToken>>

\* the first fetch, when one was issued
FirstFetched(fetched, choice) ==
    /\ issued' = fetched
    /\ firstFetch' = IF fetched = 1 THEN choice.kind ELSE "none"

\* In the driver actions the value a call returns is bound once, by \E over
\* the set that holds it.

\* search_youtube up to its loop, and its return when the loop is not entered
SearchStart ==
    /\ op = "search" /\ pc = "start"
    /\ \E choice \in Failures \cup PageChoices(None), nested \in BOOLEAN :
        LET response == IF choice.kind = "ok"
                        THEN [kind |-> "ok",
                              data |-> SearchInitialData(choice.shape, choice.token,
                                                         nested, produced)]
                        ELSE choice
        IN  \E b \in {SearchBegin(input, max_results, response)} :
        LET loop == ~b.ret /\ SearchWhile(b.token, b.all, max_results)
        IN  /\ all_results' = b.all
            /\ continuation_token' = b.token
            /\ page_count' = b.pages
            /\ pc' = IF loop THEN "fetching" ELSE "done"
            /\ result' = IF b.ret THEN b.result
                         ELSE IF loop THEN result
                         ELSE SearchReturn(input.text, b.all, b.pages, max_results)
            /\ FirstFetched(b.fetched, choice)
            /\ IF b.fetched = 1 /\ choice.kind = "ok" THEN Served(choice) ELSE NotServed
    /\ UNCHANGED <<op, input, max_results, info, raised, lastRequest, failed, dropped, files, payload_base>>

\* one pass of search_youtube's loop, and its return when the loop ends
SearchStep ==
    /\ op = "search" /\ pc = "fetching"
    /\ \E choice \in Failures \cup PageChoices(continuation_token) :
        LET response == IF choice.kind = "ok"
                        THEN [kind |-> "ok",
                              data |-> SearchContinuationData(choice.shape, choice.token,
                                                              produced)]
                        ELSE choice
        IN  \E it \in {SearchIteration(all_results, continuation_token, page_count, max_results, response)} :
        LET loop == ~it.brk /\ SearchWhile(it.token, it.all, max_results)
        IN  /\ all_results' = it.all
            /\ continuation_token' = it.token
            /\ page_count' = it.pages
            /\ pc' = IF loop THEN "fetching" ELSE "done"
            /\ result' = IF loop THEN result
                         ELSE SearchReturn(input.text, it.all, it.pages, max_results)
            /\ issued' = 1
            /\ lastRequest' = continuation_token
            /\ failed' = (choice.kind # "ok")
            /\ IF choice.kind = "ok" THEN Served(choice) ELSE NotServed
    /\ UNCHANGED <<op, input, max_results, info, raised, firstFetch, dropped, files, payload_base>>

\* get_playlist_info up to its loop, and its return when the loop is not entered
PlaylistStart ==
    /\ op = "playlist" /\ pc = "start"
    /\ \E choice \in Failures \cup PageChoices(None) :
        LET response == IF choice.kind = "ok"
                        THEN [kind |-> "ok",
                              data |-> PlaylistInitialData(choice.shape, choice.token,
                                                           produced)]
                        ELSE choice
        IN  \E b \in {PlaylistBegin(input, max_results, response)} :
        LET loop == ~b.ret /\ PlaylistWhile(b.token, b.all, max_results, b.pages)
        IN  /\ all_results' = b.all
            /\ continuation_token' = b.token
            /\ page_count' = b.pages
            /\ info' = b.info
            /\ pc' = IF loop THEN "fetching" ELSE "done"
            /\ result' = IF b.ret THEN b.result
                         ELSE IF loop THEN result
                         ELSE PlaylistReturn(b.info, b.all, b.pages, max_results)
            /\ FirstFetched(b.fetched, choice)
            /\ IF b.fetched = 1 /\ choice.kind = "ok" THEN Served(choice) ELSE NotServed
    /\ UNCHANGED <<op, input, max_results, raised, lastRequest, failed, dropped, files, payload_base>>

\* one pass of get_playlist_info's loop, and its return when the loop ends
PlaylistStep ==
    /\ op = "playlist" /\ pc = "fetching"
    /\ \E choice \in Failures \cup PageChoices(continuation_token) :
        LET response == IF choice.kind = "ok"
                        THEN [kind |-> "ok",
                              data |-> PlaylistContinuationData(choice.shape, choice.token,
                                                                produced)]
                        ELSE choice
        IN  \E it \in {PlaylistIteration(all_results, continuation_token, page_count, max_results, response)} :
        LET loop == ~it.brk /\ PlaylistWhile(it.token, it.all, max_results, it.pages)
        IN  /\ all_results' = it.all
            /\ continuation_token' = it.token
            /\ page_count' = it.pages
            /\ pc' = IF loop THEN "fetching" ELSE "done"
            /\ result' = IF loop THEN result
                         ELSE PlaylistReturn(info, it.all, it.pages, max_results)
            /\ issued' = 1
            /\ lastRequest' = continuation_token
            /\ failed' = (choice.kind # "ok")
            /\ IF choice.kind = "ok" THEN Served(choice) ELSE NotServed
    /\ UNCHANGED <<op, input, max_results, info, raised, firstFetch, dropped, files, payload_base>>

\* get_video_info, whole
VideoLookup ==
    /\ op = "video" /\ pc = "start"
    /\ \E choice \in Failures \cup
                     {[kind |-> "ok", data |-> t] : t \in VideoTrees("dQw4w9WgXcQ")} :
        LET r == get_video_info(input, choice) IN
        /\ result' = r.result
        /\ FirstFetched(r.fetched, choice)
    /\ payload_base' = IF Falsy(extract_video_id(input)) THEN payload_base
                       ELSE InnerTubePayload(payload_base, extract_video_id(input)).base
    /\ pc' = "done"
    /\ UNCHANGED <<op, input, max_results, info, all_results, continuation_token,
                   page_count, raised, lastRequest, lastPageToken, failed, produced,
                   anyEmpty, allFive, dropped, files>>

\* get_channel_info, whole
ChannelLookup ==
    /\ op = "channel" /\ pc = "start"
    /\ \E choice \in Failures \cup ChannelChoices :
        LET response == IF choice.kind = "ok"
                        THEN [kind |-> "ok",
                              data |-> ChannelInitialData(choice.at, choice.shape,
                                                          choice.later, choice.metadata)]
                        ELSE choice
            r == get_channel_info(input, max_results, response)
        IN  /\ result' = r.result
            /\ raised' = r.raised
            /\ FirstFetched(r.fetched, choice)
            /\ dropped' = (r.fetched = 1 /\ choice.kind = "ok"
                            /\ SkipsThenEmits(choice.shape))
            /\ files' = ChannelInfoWrites(files, input, response)
    /\ pc' = "done"
    /\ UNCHANGED <<op, input, max_results, info, all_results, continuation_token,
                   page_count, lastRequest, lastPageToken, failed, produced,
                   anyEmpty, allFive, payload_base>>

Next ==
    \/ SearchStart
    \/ SearchStep
    \/ PlaylistStart
    \/ PlaylistStep
    \/ VideoLookup
    \/ ChannelLookup

Spec == Init /\ [][Next]_vars

\* every fetch returns, so a run that can take a step takes one
FairSpec == Spec /\ WF_vars(Next)

---------------------------------------------------------------------------
(* Properties of the pagination drivers and of the entry points. *)

Drivers == {"search", "playlist"}

\* the page ceiling of the driver this run calls
PageCeiling == IF op = "search" THEN SearchPageCeiling ELSE PlaylistPageCeiling

\* the record list a finished run returned (empty when it returned none)
Returned == IF op = "search" THEN Get(result, "results", <<>>)
            ELSE Get(result, "videos", <<>>)

\* a driver run that got its first page and has returned
Finished == op \in Drivers /\ pc = "done" /\ firstFetch = "ok"

\* C1: the page counter of search_youtube never exceeds 10 and that of
\* get_playlist_info never exceeds 20, in the loop and in pages_fetched,
\* whatever max_results is and however long the source keeps handing out tokens.
C1_PageCeiling ==
    /\ op = "search" => page_count <= 10 /\ Get(result, "pages_fetched", 0) <= 10
    /\ op = "playlist" => page_count <= 20 /\ Get(result, "pages_fetched", 0) <= 20

\* a playlist run stopped by its ceiling with a token still held
C1_Witness ==
    /\ op = "playlist" /\ pc = "done"
    /\ Get(result, "pages_fetched", 0) = 20
    /\ lastPageToken # None /\ Len(all_results) < max_results

\* C2: for max_results >= 0 the returned list has at most max_results entries,
\* and once a continuation page was requested the accumulator holds at most
\* max_results records: a page adds no more than max_results - collected.
C2_WithinQuota ==
    (op \in Drivers /\ max_results >= 0) =>
        /\ Len(Returned) <= max_results
        /\ lastRequest # None => Len(all_results) <= max_results

\* a continuation page served more than the quota left, and was cut
C2_Witness ==
    /\ Finished /\ page_count >= 2 /\ max_results >= 1
    /\ produced > max_results /\ Len(Returned) = max_results

\* a listing whose served pages all yielded records, none failing
CleanListing == Finished /\ ~failed /\ ~anyEmpty /\ max_results >= 0

\* C3 as stated: over pages that each yield records and a token but the last,
\* the driver returns exactly min(max_results, total) records.  When the run
\* ends with the last served page still carrying a token the listing goes on,
\* so the total exceeds what was collected and the minimum is max_results.
C3_ExactlyMin ==
    CleanListing =>
        Len(Returned) = IF lastPageToken = None THEN Min(max_results, produced)
                        ELSE max_results

\* C3 for listings no longer than the page ceiling: the driver returns
\* min(max_results, total) records; three pages of five give 12 records for
\* max_results = 12 and all 15 for max_results = 100, with pages_fetched = 3.
C3_ExactlyMinUnderCeiling ==
    CleanListing =>
        /\ lastPageToken = None => Len(Returned) = Min(max_results, produced)
        /\ (lastPageToken # None /\ page_count < PageCeiling) =>
               Len(Returned) = max_results
        /\ (allFive /\ produced = 15 /\ lastPageToken = None /\ max_results = 12) =>
               Len(Returned) = 12 /\ result.pages_fetched = 3
        /\ (allFive /\ produced = 15 /\ lastPageToken = None /\ max_results = 100) =>
               Len(Returned) = 15 /\ result.pages_fetched = 3

\* three pages of five, the last without token, asked for a hundred
C3_Witness ==
    /\ CleanListing /\ op = "playlist" /\ max_results = 100
    /\ allFive /\ produced = 15 /\ lastPageToken = None
    /\ Len(Returned) = 15 /\ page_count = 3

\* C4: when a continuation fetch returns no data or cannot be parsed, the run
\* ends with a result without "error" that holds every record of the earlier
\* pages, in the order they were served.
C4_PartialSuccess ==
    (op \in Drivers /\ failed) =>
        /\ pc = "done" /\ "error" \notin DOMAIN result
        /\ Returned = all_results
        /\ Len(all_results) = Min(max_results, produced)
        /\ \A i \in DOMAIN all_results : all_results[i].video_id = VideoId(i)

\* a search whose third request failed after two pages with records
C4_Witness ==
    /\ op = "search" /\ failed /\ pc = "done"
    /\ page_count = 2 /\ Len(Returned) >= 2 /\ ~anyEmpty

\* C5: a driver run ends only because the last page carried no token, the quota
\* is met, the page counter reached the ceiling, or the continuation fetch or
\* parse failed; a parsed page, even without records, is followed by a request.
C5_LeavesFetchingForFourReasons ==
    Finished =>
        \/ lastPageToken = None
        \/ Len(all_results) >= max_results
        \/ page_count >= PageCeiling
        \/ failed

\* C6: every run of search_youtube and get_playlist_info reaches Done, when
\* every fetch returns.
C6_Terminates == (op \in Drivers) ~> (pc = "done")

\* a search fed tokens and pages without records until its ceiling
C6_Witness ==
    /\ op = "search" /\ pc = "done" /\ page_count = SearchPageCeiling
    /\ lastPageToken # None /\ all_results = <<>> /\ ~failed

\* C7: a pass of the loop issues exactly one request, carrying the token of
\* the page processed last, and a failed request ends the run.
C7_SequentialChain ==
    [][ (op \in Drivers /\ pc = "fetching") =>
            /\ issued' = 1
            /\ lastRequest' = lastPageToken /\ lastRequest' # None
            /\ failed' => pc' = "done" ]_vars

\* a playlist whose second continuation request failed
C7_Witness ==
    /\ op = "playlist" /\ pc = "done" /\ failed
    /\ page_count = 2 /\ lastRequest = Tokens[2]

\* C8: when the first fetch returns no data or cannot be decoded, the entry
\* point returns a record whose only key is "error", after that one fetch.
C8_ErrorOnly ==
    (pc = "done" /\ firstFetch \in {"nodata", "undecodable"}) =>
        ~raised /\ DOMAIN result = {"error"} /\ issued = 1 /\ lastRequest = None

\* an argument no resource is found for: for the three resolvers, what they
\* reject; for the channel lookup None, "" and a URL of another site
Unresolvable ==
    CASE op = "search" -> NotGiven(input)
      [] op = "video" -> Falsy(extract_video_id(input))
      [] op = "playlist" -> Falsy(extract_playlist_id(input))
      [] OTHER -> NotGiven(input) \/ (input.shape = "url" /\ input.host = "other")

\* C9: for an argument that names no resource the entry point returns a
\* record with "error", without raising and without any fetch.
C9_ResolutionError ==
    (pc = "done" /\ Unresolvable) =>
        ~raised /\ "error" \in DOMAIN result /\ issued = 0 /\ firstFetch = "none"

\* video_id is not empty and url is the watch URL of video_id
ValidRecords(videos) ==
    \A i \in DOMAIN videos :
        /\ ~Falsy(Get(videos[i], "video_id", None))
        /\ Get(videos[i], "url", None) =
               "https://www.youtube.com/watch?v=" \o Get(videos[i], "video_id", None)

\* C10: every record collected or returned by the search, the playlist and the
\* channel lookup has a non-empty video_id and the watch URL of that id;
\* renderers without videoId give no record and do not keep the drivers from
\* collecting every renderer with an id, up to the quota.
C10_RecordsHaveIds ==
    /\ ValidRecords(all_results)
    /\ ValidRecords(Get(result, "results", <<>>))
    /\ ValidRecords(Get(result, "videos", <<>>))
    /\ (op \in Drivers /\ max_results >= 1) =>
           Len(all_results) = Min(max_results, produced)

\* a channel page with a renderer without videoId before one with, and a record
C10_Witness ==
    /\ op = "channel" /\ pc = "done" /\ dropped
    /\ Len(Get(result, "videos", <<>>)) >= 1

\* the keys of a record built from a renderer that holds only its videoId
MinimalKeys == {"video_id", "url", "thumbnails"}

ExactlyMinimal(videos) ==
    \A i \in DOMAIN videos :
        /\ DOMAIN videos[i] = MinimalKeys
        /\ Cardinality(DOMAIN videos[i].thumbnails) = 5

\* C11: from a renderer with only videoId set (the only renderers with an id
\* the pages of Spec hold) the search, playlist and channel extractors give a
\* record with exactly the keys video_id, url and thumbnails (five entries).
C11_ExactlyThreeKeys ==
    /\ ExactlyMinimal(all_results)
    /\ ExactlyMinimal(Get(result, "videos", <<>>))
    /\ ExactlyMinimal(Get(result, "results", <<>>))


---------------------------------------------------------------------------
(* The extractors applied to single trees.  A run of ExtractSpec draws one *)
(* tree from a bounded set, described by input, and applies one function   *)
(* to it: op names the function, result holds what it returned.            *)

\* most renderers on a page of ExtractSpec
MaxItems == 2

\* max_results values tried on single pages: below and above every page
ExtractQuotas == {1, 50}

\* the renderers of these pages: an id only, an id and a duration text that
\* reads "1:05", "SHORTS" or "-1:30", or no id
ItemKinds == {"plain", "timed", "badtime", "negtime", "noid"}

DurationTextOf(kind) ==
    CASE kind = "timed" -> <<"1", ":", "0", "5">>
      [] kind = "badtime" -> <<"S", "H", "O", "R", "T", "S">>
      [] OTHER -> <<"-", "1", ":", "3", "0">>

\* the i-th renderer of a page has id vi
ItemOfKind(kind, i) ==
    CASE kind = "plain" -> [videoId |-> VideoId(i)]
      [] kind = "noid" -> [title |-> [runs |-> <<[text |-> "no id"]>>]]
      [] OTHER -> [videoId |-> VideoId(i),
                   lengthText |-> [simpleText |-> DurationTextOf(kind)]]

ExtractItems(kinds, key) ==
    [i \in DOMAIN kinds |-> Entry(key, ItemOfKind(kinds[i], i))]

\* the shapes of a continuation item: none on the page, the five endpoint
\* shapes, the renderer's own "continuation" key, and an endpoint of no
\* known shape
Forms == {"none", "executor", "command", "url", "bare", "browse", "legacy", "unknown"}

EndpointOfForm(form, token) ==
    CASE form = "executor" ->
             [commandExecutorCommand |-> [commands |-> <<
                 [playlistVotingRefreshPopupCommand |-> EmptyDict],
                 [continuationCommand |-> [token |-> token]] >>]]
      [] form = "command" -> [continuationCommand |-> [token |-> token]]
      [] form = "url" ->
             [commandMetadata |-> [webCommandMetadata |->
                 [url |-> << "/browse?ctoken=x", token >>]]]
      [] form = "bare" -> [token |-> token]
      [] form = "browse" -> [browseEndpoint |-> [params |-> token]]
      [] OTHER -> [clickTrackingParams |-> "CBQQ"]

\* the continuation item of a form: <<>> for "none", else <<item>>
ItemOfForm(form, token) ==
    IF form = "none" THEN <<>>
    ELSE IF form = "legacy"
    THEN << [continuationItemRenderer |-> [continuation |-> token]] >>
    ELSE << [continuationItemRenderer |->
                [continuationEndpoint |-> EndpointOfForm(form, token)]] >>

\* a page: its renderers, then its continuation item
PageInputs == [items : SeqsUpTo(ItemKinds, MaxItems), form : Forms]

\* a first search page: the section of the renderers, the continuation item
\* beside it
SearchPageTree(page) ==
    [contents |-> [twoColumnSearchResultsRenderer |-> [primaryContents |->
        [sectionListRenderer |-> [contents |->
            << [itemSectionRenderer |->
                   [contents |-> ExtractItems(page.items, "videoRenderer")]] >>
            \o ItemOfForm(page.form, Tokens[1])]]]]]

SearchEnvelope(page) ==
    [onResponseReceivedCommands |-> <<
        [appendContinuationItemsAction |-> [continuationItems |->
            << [itemSectionRenderer |->
                   [contents |-> ExtractItems(page.items, "videoRenderer")]] >>
            \o ItemOfForm(page.form, Tokens[1])]] >>]

\* a first playlist page: the renderers and the continuation item in the
\* content list
PlaylistPageTree(page) ==
    [contents |-> [twoColumnBrowseResultsRenderer |-> [tabs |-> <<
        [tabRenderer |-> [content |-> [sectionListRenderer |-> [contents |-> <<
            [itemSectionRenderer |-> [contents |-> <<
                [playlistVideoListRenderer |-> [contents |->
                    ExtractItems(page.items, "playlistVideoRenderer")
                    \o ItemOfForm(page.form, Tokens[1])]] >>]] >>]]]] >>]]]

PlaylistEnvelope(page) ==
    [onResponseReceivedActions |-> <<
        [appendContinuationItemsAction |-> [continuationItems |->
            ExtractItems(page.items, "playlistVideoRenderer")
            \o ItemOfForm(page.form, Tokens[1])]] >>]

\* most continuation items in one content list
MaxContinuations == 2

\* the k-th continuation item of a content list carries the token itemk
ItemToken(k) == "item" \o ToString(k)

\* a playlist page for the locators: the content list holds continuation
\* items of the given shapes (or cannot be reached: the section list is
\* empty), the header may hold a menu action with the token "menu"
LocatorInputs ==
    {l \in [direct : SeqsUpTo(Forms \ {"none"}, MaxContinuations),
            menu : BOOLEAN, broken : BOOLEAN] : l.broken => l.direct = <<>>}

PlaylistLocatorTree(l) ==
    LET listed == [k \in DOMAIN l.direct |-> ItemOfForm(l.direct[k], ItemToken(k))[1]]
        sections == IF l.broken THEN <<>>
                    ELSE << [itemSectionRenderer |-> [contents |-> <<
                               [playlistVideoListRenderer |-> [contents |-> listed]] >>]] >>
        actions == IF l.menu
                   THEN << [menuAction |-> [menuServiceItemRenderer |-> [serviceEndpoint |->
                               [continuationCommand |-> [token |-> "menu"]]]]] >>
                   ELSE <<>>
    IN  [header |-> [playlistHeaderRenderer |-> [playlistActions |-> actions]],
         contents |-> [twoColumnBrowseResultsRenderer |-> [tabs |-> <<
            [tabRenderer |-> [content |-> [sectionListRenderer |->
                [contents |-> sections]]]] >>]]]

\* a search page for the locator: a continuation item beside the section
\* (token "direct"), one inside it (token "nested"), each of the shape the
\* code reads, of another shape, or missing
SearchLocatorInputs ==
    [direct : {"none", "command", "unknown"}, nested : {"none", "command", "unknown"}]

SearchLocatorTree(l) ==
    [contents |-> [twoColumnSearchResultsRenderer |-> [primaryContents |->
        [sectionListRenderer |-> [contents |->
            << [itemSectionRenderer |->
                   [contents |-> << Entry("videoRenderer", ItemOfKind("plain", 1)) >>
                                 \o ItemOfForm(l.nested, "nested")]] >>
            \o ItemOfForm(l.direct, "direct")]]]]]

\* a channel page for extract_channel_metadata: which of the four shapes it
\* holds, each with texts of its own ("bare": the title, and the id, only)
MetadataInputs ==
    [page : {"absent", "bare", "full"}, c4 : {"absent", "full"},
     metadata : {"absent", "bare", "full"}, about : {"absent", "full"}]

MetadataTree(m) ==
    LET view_model ==
            [title |-> [dynamicTextViewModel |-> [text |-> [content |-> "Page title"]]],
             description |-> [descriptionPreviewViewModel |->
                 [description |-> [content |-> "page description"]]]]
        page == IF m.page = "absent" THEN EmptyDict
                ELSE IF m.page = "bare"
                THEN Entry("pageHeaderRenderer", [pageTitle |-> "Page title"])
                ELSE Entry("pageHeaderRenderer",
                           [pageTitle |-> "Page title",
                            content |-> [pageHeaderViewModel |-> view_model]])
        c4 == IF m.c4 = "absent" THEN EmptyDict
              ELSE Entry("c4TabbedHeaderRenderer",
                         [title |-> "C4 title",
                          descriptionSnippet |-> [runs |-> <<[text |-> "c4 snippet"]>>]])
        metadata ==
            IF m.metadata = "absent" THEN EmptyDict
            ELSE IF m.metadata = "bare"
            THEN Entry("metadata", [channelMetadataRenderer |->
                     [title |-> "Meta title", externalId |-> "UCmeta"]])
            ELSE Entry("metadata", [channelMetadataRenderer |->
                     [title |-> "Meta title", externalId |-> "UCmeta",
                      description |-> "meta description",
                      vanityChannelUrl |-> "http://www.youtube.com/c/Meta"]])
        about == IF m.about = "absent" THEN <<>>
                 ELSE << TabOf("About",
                            [channelAboutFullMetadataRenderer |->
                                [description |-> [simpleText |-> "about description"],
                                 channelId |-> "UCabout"]]) >>
    IN  Update([header |-> Update(page, c4),
                contents |-> [twoColumnBrowseResultsRenderer |->
                                 [tabs |-> << TabOf("Home", EmptyDict) >> \o about]]],
               metadata)

\* a channel page for extract_channel_videos: renderers of the given kinds in
\* one of the three locations, and others in the location after it
ChannelVideoInputs ==
    [at : DOMAIN ChannelLocations, shape : ChannelShapes, later : SeqsUpTo({"video"}, 1)]

\* a playlist page for its metadata: the sidebar is missing, has no item,
\* the primary item only or both items; the description is absent, in runs,
\* a simpleText or in the header only
PlaylistMetadataInputs ==
    [sidebar : {"missing", "empty", "primary", "both"},
     description : {"absent", "runs", "simple", "header"},
     owner : BOOLEAN]

PlaylistMetadataTree(m) ==
    LET described ==
            CASE m.description = "runs" ->
                     [description |-> [runs |-> <<[text |-> "about "], [text |-> "it"]>>]]
              [] m.description = "simple" -> [description |-> [simpleText |-> "about it"]]
              [] OTHER -> EmptyDict
        primary == [playlistSidebarPrimaryInfoRenderer |->
                       Update([title |-> [runs |-> <<[text |-> "Mix"]>>]], described)]
        secondary ==
            [playlistSidebarSecondaryInfoRenderer |->
                IF m.owner
                THEN [videoOwner |-> [videoOwnerRenderer |-> [title |-> [runs |-> <<
                         [text |-> "Ann",
                          navigationEndpoint |-> [browseEndpoint |->
                                                     [browseId |-> "UCann"]]] >>]]]]
                ELSE EmptyDict]
        sidebar ==
            CASE m.sidebar = "missing" -> EmptyDict
              [] m.sidebar = "empty" ->
                     [sidebar |-> [playlistSidebarRenderer |-> [items |-> <<>>]]]
              [] m.sidebar = "primary" ->
                     [sidebar |-> [playlistSidebarRenderer |-> [items |-> <<primary>>]]]
              [] OTHER ->
                     [sidebar |-> [playlistSidebarRenderer |->
                                      [items |-> <<primary, secondary>>]]]
        header ==
            IF m.description = "header"
            THEN [header |-> [playlistHeaderRenderer |->
                                 [description |-> [simpleText |-> "about it"]]]]
            ELSE EmptyDict
        listing == PlaylistInitialData(<<"video">>, None, 0)
    IN  Update(Update([contents |-> listing.contents], sidebar), header)

\* extract_video_id is applied to an id alone and to the four URL forms of
\* it: ids of 11 id characters (with "-", "_" or a word the code looks for
\* in the path), of 10 and 12 characters, with another character, and an id
\* followed by a newline (urlparse removes a newline from a URL, so that one
\* is given alone)
VideoIdTexts ==
    { "dQw4w9WgXcQ", "a-b_c-d_e-f", "watchABCDEF", "embed_12345", "shortsABCDE",
      "dQw4w9WgXc", "dQw4w9WgXcQ1", "dQw4w9WgXc!", "dQw4w9WgXcQ\n" }

UrlForms == {"bare", "watch", "youtu.be", "embed", "shorts"}

VideoIdInputs ==
    {m \in [id : VideoIdTexts, form : UrlForms] :
        m.id = "dQw4w9WgXcQ\n" => m.form = "bare"}

\* the argument, as urlparse and parse_qs read it
VideoArgument(m) ==
    CASE m.form = "bare" -> PlainStr(m.id, "plain")
      [] m.form = "watch" ->
             Str("https://www.youtube.com/watch?v=" \o m.id, "url", "www.youtube.com",
                 <<"watch">>, m.id, None)
      [] m.form = "youtu.be" ->
             Str("https://youtu.be/" \o m.id, "url", "youtu.be", <<m.id>>, None, None)
      [] OTHER ->
             Str("https://www.youtube.com/" \o m.form \o "/" \o m.id, "url",
                 "www.youtube.com", <<m.form, m.id>>, None, None)

\* the texts _parse_count is applied to: counts with and without a unit and
\* separators, texts without a digit, and texts whose first run of digits,
\* dots and commas is no number.  The fractions are such that the product
\* the code makes in floating point is the exact one.
CountTexts ==
    { "1.2M", "15K", "1,234", "1.5K subscribers", "12", "100 videos", "0.5M",
      "3.K", ".5K", "12.7", "1,234.5K", "", "no count", "M", "Vol.3",
      ".", ",", "..", "1.2.3", "v. 2", "1.234.567 views" }

CountInputs == [text : CountTexts]

\* the texts parse_view_count is applied to
ViewTexts ==
    { "1,072,836,095 views", "12 views", "1 view", "5", " 7 views ", "3views",
      "1,5 views", "-5 views", "1_000 views", "", "views", "No views",
      "1.2K views", "12 viewers" }

ViewInputs == [text : ViewTexts]

\* the dates a player response is given: days and moments of the calendar,
\* texts that name none, and no date
WellFormedDates == {"2020-01-02", "2020-02-29", "2009-10-25T06:57:33-07:00"}

MalformedDates ==
    { "2021-02-29", "2020-13-45", "2020-1-2", "yesterday", "Jan 2, 2020",
      "2020-01-02T25:00:00+00:00" }

DateInputs ==
    [publishDate : WellFormedDates \cup MalformedDates \cup {"", None},
     uploadDate : {"2020-01-02", "yesterday", None}]

\* a player response with videoDetails, a microformat holding those dates,
\* and one format
VideoDatesTree(m) ==
    LET dated(key, value) == IF value = None THEN EmptyDict ELSE Entry(key, value) IN
    [videoDetails |-> [videoId |-> "dQw4w9WgXcQ", title |-> "Clip", lengthSeconds |-> 212],
     microformat |-> [playerMicroformatRenderer |->
         Update(Update([category |-> "Music", likeCount |-> "1,234"],
                       dated("publishDate", m.publishDate)),
                dated("uploadDate", m.uploadDate))],
     streamingData |-> [formats |-> << [itag |-> 18, url |-> "https://r1/videoplayback",
                                        mimeType |-> "video/mp4", quality |-> "medium"] >>]]

\* a channel page whose listing location holds one grid (or shelf) of
\* `first` videos and, when `second` is not 0, another one of `second`
MaxGridVideos == 2

ChannelGridInputs ==
    [at : DOMAIN ChannelLocations, first : 1..MaxGridVideos, second : 0..MaxGridVideos]

ChannelGridTree(m) ==
    LET loc == ChannelLocations[m.at]
        nodes == << LocationNode(loc, MakeItems([i \in 1..m.first |-> "video"], 0,
                                                "gridVideoRenderer")) >>
                 \o IF m.second = 0 THEN <<>>
                    ELSE << LocationNode(loc, MakeItems([i \in 1..m.second |-> "video"],
                                                        m.first, "gridVideoRenderer")) >>
        section(l) == [itemSectionRenderer |-> [contents |-> IF l = loc THEN nodes ELSE <<>>]]
        tab(title, l) ==
            [tabRenderer |-> [title |-> title,
                              content |-> [sectionListRenderer |->
                                              [contents |-> << section(l) >>]]]]
    IN  [contents |-> [twoColumnBrowseResultsRenderer |->
            [tabs |-> << tab("Home", "home"), tab("Videos", "videos") >>,
             secondaryContents |-> [sectionListRenderer |->
                                       [contents |-> << section("secondary") >>]]]]]

PageOps == {"process_search_results", "search_continuation_page",
            "extract_playlist_videos", "playlist_continuation_page"}

ExtractOps == PageOps \cup {"playlist_locators", "search_locator", "search_youtube",
                            "extract_channel_metadata", "extract_channel_videos",
                            "get_playlist_info", "extract_video_id",
                            "parse_count", "parse_view_count", "get_video_info",
                            "get_channel_videos"}

ExtractInputsOf(o) ==
    IF o = "playlist_locators" THEN LocatorInputs
    ELSE IF o = "search_locator" THEN SearchLocatorInputs
    ELSE IF o = "extract_channel_metadata" THEN MetadataInputs
    ELSE IF o = "extract_channel_videos" THEN ChannelVideoInputs
    ELSE IF o = "get_playlist_info" THEN PlaylistMetadataInputs
    ELSE IF o = "extract_video_id" THEN VideoIdInputs
    ELSE IF o = "parse_count" THEN CountInputs
    ELSE IF o = "parse_view_count" THEN ViewInputs
    ELSE IF o = "get_video_info" THEN DateInputs
    ELSE IF o = "get_channel_videos" THEN ChannelGridInputs
    ELSE PageInputs

ExtractInit ==
    /\ op \in ExtractOps
    /\ input \in ExtractInputsOf(op)
    /\ max_results \in ExtractQuotas
    /\ pc = "start"
    /\ info = EmptyDict
    /\ all_results = <<>>
    /\ continuation_token = None
    /\ page_count = 0
    /\ result = EmptyDict
    /\ raised = FALSE
    /\ issued = 0
    /\ firstFetch = "none"
    /\ lastRequest = None
    /\ lastPageToken = None
    /\ failed = FALSE
    /\ produced = 0
    /\ anyEmpty = FALSE
    /\ allFive = TRUE
    /\ dropped = FALSE
    /\ files = EmptyDict
    /\ payload_base = INNERTUBE_PAYLOAD_BASE

\* the function is applied once; nothing but result and pc changes
Applied ==
    /\ pc = "start"
    /\ pc' = "done"
    /\ UNCHANGED <<op, input, max_results, info, all_results, continuation_token,
                   page_count, raised, issued, firstFetch, lastRequest, lastPageToken,
                   failed, produced, anyEmpty, allFive, dropped, files, payload_base>>

ApplyProcessSearchResults ==
    /\ op = "process_search_results"
    /\ Applied
    /\ result' = process_search_results(SearchPageTree(input), max_results)

ApplySearchContinuationPage ==
    /\ op = "search_continuation_page"
    /\ Applied
    /\ result' = SearchFetchContinuationPage(Tokens[2],
                      [kind |-> "ok", data |-> SearchEnvelope(input)])

\* both first-page locators of a playlist page are applied to the same tree
ApplyExtractPlaylistVideos ==
    /\ op = "extract_playlist_videos"
    /\ Applied
    /\ result' = Update(extract_playlist_videos(PlaylistPageTree(input), max_results),
                        Entry("located",
                              PlaylistExtractContinuationToken(PlaylistPageTree(input))))

ApplyPlaylistContinuationPage ==
    /\ op = "playlist_continuation_page"
    /\ Applied
    /\ result' = PlaylistFetchContinuationPage(Tokens[2],
                      [kind |-> "ok", data |-> PlaylistEnvelope(input)])

\* the token each of the two first-page locators of playlist.py finds
ApplyPlaylistLocators ==
    /\ op = "playlist_locators"
    /\ Applied
    /\ result' =
          [videos_token |->
               extract_playlist_videos(PlaylistLocatorTree(input), max_results).token,
           located |-> PlaylistExtractContinuationToken(PlaylistLocatorTree(input))]

ApplySearchLocator ==
    /\ op = "search_locator"
    /\ Applied
    /\ result' = [located |-> SearchExtractContinuationToken(SearchLocatorTree(input))]

\* search_youtube("cats") on a first page, where the fetch of a continuation
\* page (if the loop asks for one) brings no data
SearchYoutubeOnce(query, max, response) ==
    LET b == SearchBegin(query, max, response)
        it == SearchIteration(b.all, b.token, b.pages, max, [kind |-> "nodata"])
    IN  IF b.ret THEN b.result
        ELSE IF SearchWhile(b.token, b.all, max)
        THEN SearchReturn(query.text, it.all, it.pages, max)
        ELSE SearchReturn(query.text, b.all, b.pages, max)

ApplySearchYoutube ==
    /\ op = "search_youtube"
    /\ Applied
    /\ result' = SearchYoutubeOnce(PlainStr("cats", "junk"), max_results,
                                   [kind |-> "ok", data |-> SearchPageTree(input)])

\* extract_channel_metadata, with channel_info as it stands after the page
\* header, after the c4 header and after the channel metadata
ApplyExtractChannelMetadata ==
    /\ op = "extract_channel_metadata"
    /\ Applied
    /\ result' =
          [after_page |-> PageHeaderStage(MetadataTree(input),
                              DescriptionStage(MetadataTree(input))),
           after_c4 |-> C4HeaderStage(MetadataTree(input),
                            PageHeaderStage(MetadataTree(input),
                                DescriptionStage(MetadataTree(input)))),
           after_metadata |->
               ChannelMetadataStage(MetadataTree(input),
                   C4HeaderStage(MetadataTree(input),
                       PageHeaderStage(MetadataTree(input),
                           DescriptionStage(MetadataTree(input))))),
           returned |-> extract_channel_metadata(MetadataTree(input))]

ApplyExtractChannelVideos ==
    /\ op = "extract_channel_videos"
    /\ Applied
    /\ result' =
          [videos |-> extract_channel_videos(
                          ChannelInitialData(input.at, input.shape, input.later, FALSE),
                          max_results)]

\* get_playlist_info("PLmix") on a page that announces no further page
PlaylistInfoOnce(url_or_id, max, response) ==
    LET b == PlaylistBegin(url_or_id, max, response)
    IN  IF b.ret THEN b.result
        ELSE PlaylistReturn(b.info, b.all, b.pages, max)

ApplyGetPlaylistInfo ==
    /\ op = "get_playlist_info"
    /\ Applied
    /\ result' = PlaylistInfoOnce(PlainStr("PLmix", "plain"), max_results,
                                  [kind |-> "ok", data |-> PlaylistMetadataTree(input)])

ApplyExtractVideoId ==
    /\ op = "extract_video_id"
    /\ Applied
    /\ result' = [video_id |-> extract_video_id(VideoArgument(input))]

ApplyParseCount ==
    /\ op = "parse_count"
    /\ Applied
    /\ result' = parse_count(input.text)

ApplyParseViewCount ==
    /\ op = "parse_view_count"
    /\ Applied
    /\ result' = parse_view_count(input.text)

\* parse_iso8601_date on the publish date, and get_video_info on a response
\* that holds it
ApplyGetVideoInfo ==
    /\ op = "get_video_info"
    /\ Applied
    /\ result' =
          [parsed |-> parse_iso8601_date(input.publishDate),
           info |-> get_video_info(PlainStr("dQw4w9WgXcQ", "video_id"),
                                   [kind |-> "ok", data |-> VideoDatesTree(input)]).result]

\* get_channel_videos and get_channel_info on the same page
ApplyGetChannelVideos ==
    /\ op = "get_channel_videos"
    /\ Applied
    /\ result' =
          [listed |-> get_channel_videos(PlainStr("UCabcdefghijklmnopqrstuv", "channel_id"),
                          max_results,
                          [kind |-> "ok", data |-> ChannelGridTree(input)]).result,
           info |-> get_channel_info(PlainStr("UCabcdefghijklmnopqrstuv", "channel_id"),
                        max_results,
                        [kind |-> "ok", data |-> ChannelGridTree(input)]).result]

ExtractNext ==
    \/ ApplyProcessSearchResults
    \/ ApplySearchContinuationPage
    \/ ApplyExtractPlaylistVideos
    \/ ApplyPlaylistContinuationPage
    \/ ApplyPlaylistLocators
    \/ ApplySearchLocator
    \/ ApplySearchYoutube
    \/ ApplyExtractChannelMetadata
    \/ ApplyExtractChannelVideos
    \/ ApplyGetPlaylistInfo
    \/ ApplyExtractVideoId
    \/ ApplyParseCount
    \/ ApplyParseViewCount
    \/ ApplyGetVideoInfo
    \/ ApplyGetChannelVideos

ExtractSpec == ExtractInit /\ [][ExtractNext]_vars

\* ---- what a page of ExtractSpec should give ----

\* the ids of the renderers of a page that have one, in order
RECURSIVE IdsFrom(_, _)
IdsFrom(kinds, i) ==
    IF i > Len(kinds) THEN <<>>
    ELSE (IF kinds[i] = "noid" THEN <<>> ELSE << VideoId(i) >>) \o IdsFrom(kinds, i + 1)

\* first pages stop at max_results, continuation pages give every record
ExpectedIds ==
    IF op \in {"process_search_results", "extract_playlist_videos"}
    THEN Slice(IdsFrom(input.items, 1), max_results)
    ELSE IdsFrom(input.items, 1)

\* the records the applied function returned
PageRecords ==
    IF op \in {"process_search_results", "search_continuation_page"}
    THEN Get(result, "results", <<>>)
    ELSE Get(result, "videos", <<>>)

RecordIds(records) == [i \in DOMAIN records |-> records[i].video_id]

PageDone == pc = "done" /\ op \in PageOps

\* C12: a duration text that cannot be parsed costs its record the field and
\* nothing else: on pages whose continuation item has the common shape (or
\* that have none) the function reports no error, returns the record of
\* every renderer with an id, and the token of the page.
C12_ParseFailureOmitsField ==
    (PageDone /\ input.form \in {"none", "command"}) =>
        /\ ~Get(result, "error", FALSE)
        /\ RecordIds(PageRecords) = ExpectedIds
        /\ (input.form = "command" /\ Len(PageRecords) < max_results)
               => result.token = Tokens[1]

\* the same statement on pages where every duration text can be parsed
ParsedPagesAreWhole ==
    (\A i \in DOMAIN input.items : input.items[i] # "badtime")
        => C12_ParseFailureOmitsField


\* C13: the duration_seconds of every record a page extractor returns is a
\* non-negative integer, whatever the duration text of its renderer
\* (a leading minus sign included).
C13_NumericFieldsNonNegative ==
    PageDone =>
        \A i \in DOMAIN PageRecords :
            "duration_seconds" \in DOMAIN PageRecords[i]
                => PageRecords[i].duration_seconds \in Nat


\* the five endpoint shapes of a continuation item
FiveShapes == {"executor", "command", "url", "bare", "browse"}

\* every duration text of the page can be parsed
Parsable == \A i \in DOMAIN input.items : input.items[i] # "badtime"

\* the token the playlist locator found: _extract_continuation_token on a
\* first page, the token of _fetch_continuation_page on an envelope
Located == IF op = "extract_playlist_videos" THEN result.located ELSE result.token

\* C14: for each of the five endpoint shapes the playlist locator returns the
\* token of the continuation item, in a first-page tree and in a continuation
\* envelope alike; a page without continuation item, or with one of no known
\* shape, gives no token.
C14_LocatesEveryShape ==
    (pc = "done" /\ op \in {"extract_playlist_videos", "playlist_continuation_page"}
       /\ Parsable) =>
        /\ input.form \in FiveShapes => Located = Tokens[1]
        /\ input.form \in {"none", "unknown"} => Located = None

\* the same statement for the first-page locator alone
FirstPageLocatesEveryShape ==
    op = "extract_playlist_videos" => C14_LocatesEveryShape


\* the first continuation item of the content list whose shape is known
RECURSIVE FirstKnown(_, _)
FirstKnown(forms, k) ==
    IF k > Len(forms) THEN 0
    ELSE IF forms[k] # "unknown" THEN k
    ELSE FirstKnown(forms, k + 1)

\* the token due from a playlist page that can be traversed: that of the
\* first continuation item that has one, else that of the menu action
FirstInPriority ==
    IF FirstKnown(input.direct, 1) > 0 THEN ItemToken(FirstKnown(input.direct, 1))
    ELSE IF input.menu THEN "menu"
    ELSE None

\* C15: the locators return the first token in priority order: on a playlist
\* page the token of the first continuation item that has one, before the
\* menu action's, and the same from _extract_playlist_videos and from
\* _extract_continuation_token; on a search page the token of the direct
\* continuation item before that of a nested one.
C15_FirstMatchInPriority ==
    /\ (pc = "done" /\ op = "playlist_locators" /\ ~input.broken) =>
           /\ result.located = FirstInPriority
           /\ result.videos_token = result.located
    /\ (pc = "done" /\ op = "search_locator" /\ input.direct = "command") =>
           result.located = "direct"

\* the same statement for _extract_continuation_token and the search locator
\* alone
LocatorReturnsFirst ==
    /\ (pc = "done" /\ op = "playlist_locators" /\ ~input.broken) =>
           result.located = FirstInPriority
    /\ (pc = "done" /\ op = "search_locator" /\ input.direct = "command") =>
           result.located = "direct"


\* C16: a location that cannot be probed counts as not matching and the
\* locations after it are still probed: the playlist locator returns the
\* token of the menu action when the content list cannot be reached, and the
\* search locator returns the token of the nested continuation item when the
\* direct one has no readable token.
C16_ProbesLowerPriority ==
    /\ (pc = "done" /\ op = "playlist_locators" /\ input.broken /\ input.menu) =>
           result.located = "menu"
    /\ (pc = "done" /\ op = "search_locator"
          /\ input.direct = "unknown" /\ input.nested = "command") =>
           result.located = "nested"

\* C17: a continuation item of no known shape beside the section of a first
\* search page ends the pagination and nothing else: search_youtube returns
\* the records of the page and no "error".
C17_UnknownShapeEndsPagination ==
    (pc = "done" /\ op = "search_youtube" /\ input.form = "unknown" /\ Parsable) =>
        /\ "error" \notin DOMAIN result
        /\ RecordIds(Get(result, "results", <<>>))
               = Slice(IdsFrom(input.items, 1), max_results)

\* search_youtube on the pages whose continuation item is missing or has the
\* shape the code reads
KnownShapeKeepsRecords ==
    (pc = "done" /\ op = "search_youtube" /\ input.form \in {"none", "command"}
       /\ Parsable) =>
        /\ "error" \notin DOMAIN result
        /\ RecordIds(Get(result, "results", <<>>))
               = Slice(IdsFrom(input.items, 1), max_results)


\* every field that holds a non-empty value in before holds it in after
Kept(before, after) ==
    \A field \in DOMAIN before :
        ~Falsy(before[field]) =>
            field \in DOMAIN after /\ after[field] = before[field]

MetadataDone == pc = "done" /\ op = "extract_channel_metadata"

\* C18: in extract_channel_metadata a field that holds a non-empty value
\* once a shape has been read is not changed by a shape of lower priority:
\* what is held after the page header is kept by the c4 header, that by the
\* channel metadata, and that by the About tab up to the value returned.
C18_LowerShapesKeepFields ==
    MetadataDone =>
        /\ Kept(result.after_page, result.after_c4)
        /\ Kept(result.after_c4, result.after_metadata)
        /\ Kept(result.after_metadata, result.returned)

\* the same statement up to the channel metadata
HeadersAndMetadataKeepFields ==
    MetadataDone =>
        /\ Kept(result.after_page, result.after_c4)
        /\ Kept(result.after_c4, result.after_metadata)

\* C19: the value returned for a field is the first non-empty one among the
\* shapes in priority order (page header, c4 header, channel metadata, About
\* tab): the title, the description where the page header or, without
\* headers, the channel metadata or the About tab has one, the snippet of
\* the c4 header under a page header that has none, and the channel id.
C19_FirstNonEmptyInPriority ==
    MetadataDone =>
        /\ input.page # "absent" => result.returned.title = "Page title"
        /\ (input.page = "absent" /\ input.c4 = "full")
               => result.returned.title = "C4 title"
        /\ (input.page = "absent" /\ input.c4 = "absent" /\ input.metadata # "absent")
               => result.returned.title = "Meta title"
        /\ input.page = "full" => result.returned.description = "page description"
        /\ (input.page # "full" /\ input.c4 = "absent" /\ input.metadata = "full")
               => result.returned.description = "meta description"
        /\ (input.page # "full" /\ input.c4 = "absent" /\ input.metadata # "full"
              /\ input.about = "full")
               => result.returned.description = "about description"
        /\ (input.page = "bare" /\ input.c4 = "full")
               => Get(result.returned, "description_snippet", None) = "c4 snippet"
        /\ input.metadata # "absent" => result.returned.channel_id = "UCmeta"
        /\ (input.metadata = "absent" /\ input.about = "full")
               => result.returned.channel_id = "UCabout"

\* the same statement for the title alone
TitleIsFirstNonEmpty ==
    MetadataDone =>
        /\ input.page # "absent" => result.returned.title = "Page title"
        /\ (input.page = "absent" /\ input.c4 = "full")
               => result.returned.title = "C4 title"
        /\ (input.page = "absent" /\ input.c4 = "absent" /\ input.metadata # "absent")
               => result.returned.title = "Meta title"


\* the ids vfrom+1 .. vfrom+n, in order
IdsAfter(from, n) == [i \in 1..n |-> VideoId(from + i)]

\* the videos the first max_results renderers of a location yield
Yield(shape) == CountVideos(Slice(shape, max_results))

\* the location after the one of input.shape exists and holds input.later
HasLater == input.at < Len(ChannelLocations)

ChannelVideosDone == pc = "done" /\ op = "extract_channel_videos"

\* C20: extract_channel_videos returns the videos of the first of the three
\* locations (Videos tab grid, Home tab shelf, secondary-column shelf) that
\* yields a video, and only those: the videos of the location after it are
\* returned when it yields none, and are never added when it yields one.
C20_FirstLocationOnly ==
    ChannelVideosDone =>
        RecordIds(result.videos) =
            IF Yield(input.shape) > 0 THEN IdsAfter(0, Yield(input.shape))
            ELSE IF HasLater THEN IdsAfter(CountVideos(input.shape), Yield(input.later))
            ELSE <<>>

\* a location that yields a video was returned alone although the location
\* after it holds a video too
C20_Witness ==
    /\ ChannelVideosDone
    /\ HasLater
    /\ Yield(input.shape) > 0
    /\ Yield(input.later) > 0
    /\ Len(result.videos) = Yield(input.shape)

\* ---- C21 ----

PlaylistInfoDone == op = "get_playlist_info" /\ pc = "done" /\ "error" \notin DOMAIN result

\* C21: every non-error result of get_playlist_info has the key description
\* (equal to "" when the page supplies none), whatever the item list of the
\* sidebar is, and a page without the owner item still reports its title.
C21_DescriptionAlwaysPresent ==
    PlaylistInfoDone =>
        /\ "description" \in DOMAIN result
        /\ input.description = "absent" => result["description"] = ""
        /\ input.sidebar \in {"primary", "both"} => "title" \in DOMAIN result

\* with both items of the sidebar present the description is always reported
FullSidebarHasDescription ==
    (PlaylistInfoDone /\ input.sidebar = "both") =>
        /\ "description" \in DOMAIN result
        /\ input.description = "absent" => result["description"] = ""
        /\ input.description # "absent" => result["description"] = "about it"
        /\ result["title"] = "Mix"
        /\ input.owner <=> "owner" \in DOMAIN result

\* ---- C22 ----

\* exactly 11 characters of A-Z, a-z, 0-9, "-", "_"
ValidId(id) == Len(id) = 11 /\ \A i \in 1..11 : IsIdChar(SubSeq(id, i, i))

VideoIdDone == op = "extract_video_id" /\ pc = "done"

\* C22: extract_video_id gives a valid id back unchanged from the id alone
\* and from its watch, youtu.be, embed and shorts URLs, whatever characters
\* the id has, and gives None for an id that is not valid.
C22_ValidIdRoundTrip ==
    VideoIdDone =>
        result.video_id = IF ValidId(input.id) THEN input.id ELSE None

\* an id that holds none of the words looked for in the path is given back
\* from every form, and an id of another length or with another character is
\* refused in every form
PlainIdRoundTrip ==
    (VideoIdDone /\ ~InText("watch", input.id) /\ input.id # "dQw4w9WgXcQ\n") =>
        result.video_id = IF ValidId(input.id) THEN input.id ELSE None

\* ---- C23 ----

ParseCountDone == op = "parse_count" /\ pc = "done"

\* the text has a run of digits, dots and commas that spells a number
WellFormedCount ==
    /\ CountRun(input.text).matched
    /\ ~FloatRaises(Without(CountRun(input.text).num, ","))

\* C23: _parse_count never raises on a string; "1.2M" gives 1200000 and
\* "15K" gives 15000, and a text without a well-formed number gives 0.
C23_ParseCountTotal ==
    ParseCountDone =>
        /\ ~result.raised
        /\ input.text = "1.2M" => result.value = 1200000
        /\ input.text = "15K" => result.value = 15000
        /\ ~WellFormedCount => result.value = 0

\* on the texts that hold a well-formed number, and on those without any
\* digit, dot or comma, the call returns the count scaled by its unit
WellFormedCountsParsed ==
    (ParseCountDone /\ (WellFormedCount \/ ~CountRun(input.text).matched)) =>
        /\ ~result.raised
        /\ result.value >= 0
        /\ input.text = "1.2M" => result.value = 1200000
        /\ input.text = "15K" => result.value = 15000
        /\ input.text = "1,234.5K" => result.value = 1234500
        /\ input.text = "12.7" => result.value = 12
        /\ input.text = "Vol.3" => result.value = 0
        /\ ~CountRun(input.text).matched => result.value = 0

\* ---- C24 ----

ParseViewCountDone == op = "parse_view_count" /\ pc = "done"

\* what is left of the text without the word views or view, the thousands
\* separators and the blanks around
ViewRemainder ==
    Strip(Without(ReplaceAll(ReplaceAll(input.text, "views"), "view"), ","))

DigitsOnly(s) == Len(s) > 0 /\ \A i \in 1..Len(s) : IsDigit(SubSeq(s, i, i))

HasLetter(s) ==
    \E i \in 1..Len(s) :
        ~IsDigit(SubSeq(s, i, i)) /\ SubSeq(s, i, i) \notin {"-", "+", "_", " "}

\* C24: parse_view_count removes the word views or view and the thousands
\* separators and returns the digits left as an integer ("1,072,836,095
\* views" and "1 view" give their number); it returns None when what is left
\* is not a number.
C24_ViewsOrViewStripped ==
    ParseViewCountDone =>
        /\ DigitsOnly(ViewRemainder) =>
               result = [returned |-> "int", value |-> NumberOf(ViewRemainder)]
        /\ (ViewRemainder = "" \/ HasLetter(ViewRemainder)) => result.returned = "None"

\* with the word views the count is returned, and None when what is left
\* of the text is not a number
ViewsStripped ==
    (ParseViewCountDone /\ ~InText("view", ReplaceAll(input.text, "views"))) =>
        /\ DigitsOnly(ViewRemainder) =>
               result = [returned |-> "int", value |-> NumberOf(ViewRemainder)]
        /\ (ViewRemainder = "" \/ HasLetter(ViewRemainder)) => result.returned = "None"
        /\ input.text = "1,072,836,095 views" => result.value = 1072836095

\* ---- C25 ----

VideoInfoDone == op = "get_video_info" /\ pc = "done"

\* C25: parse_iso8601_date never raises and returns None for a malformed
\* date; a malformed publishDate or uploadDate leaves only that date empty in
\* the result of get_video_info: no error key is added and the fields set
\* after it (the other microformat fields, the formats) are present.
C25_MalformedDateIsNone ==
    VideoInfoDone =>
        /\ ~result.parsed.raised
        /\ input.publishDate \in MalformedDates => result.parsed.returned = "None"
        /\ "error" \notin DOMAIN result.info
        /\ {"publish_date", "upload_date", "category", "formats"} \subseteq DOMAIN result.info

\* with dates that are well formed, or absent, the dates are parsed and
\* every field is set
WellFormedDatesParsed ==
    (VideoInfoDone /\ input.publishDate \notin MalformedDates
                   /\ input.uploadDate # "yesterday") =>
        /\ ~result.parsed.raised
        /\ "error" \notin DOMAIN result.info
        /\ {"publish_date", "upload_date", "category", "formats"} \subseteq DOMAIN result.info
        /\ input.publishDate = "2020-01-02" => result.info["publish_date"] = 1577923200
        /\ input.publishDate = "2009-10-25T06:57:33-07:00"
               => result.info["publish_date"] = 1256479053
        /\ input.publishDate \in {"", None} => result.info["publish_date"] = None
        /\ result.info["likes_count"] = 1234

\* ---- C26 ----

\* C26: a public operation leaves nothing behind but its fetches: when it
\* has ended the files of the working directory and the module-level request
\* payload are what they were before it.
C26_NoLastingEffect ==
    pc = "done" => files = EmptyDict /\ payload_base = INNERTUBE_PAYLOAD_BASE

\* search_youtube, get_playlist_info and get_video_info write no file, and
\* no operation changes the shared payload
OnlyChannelInfoWrites ==
    /\ op # "channel" => files = EmptyDict
    /\ payload_base = INNERTUBE_PAYLOAD_BASE

\* ---- C27 ----

ChannelListingDone == op = "get_channel_videos" /\ pc = "done"

\* C27: the videos returned by get_channel_info and get_channel_videos are
\* never more than max_videos, also when the location read holds several
\* grids or shelves, and videos_count is the length of the list.
C27_AtMostMaxVideos ==
    ChannelListingDone =>
        /\ Len(result.info["videos"]) <= max_results
        /\ Len(result.listed["videos"]) <= max_results
        /\ result.info["videos_count"] = Len(result.info["videos"])
        /\ result.listed["videos_count"] = Len(result.listed["videos"])

\* with one grid or shelf in the location read the list is within
\* max_videos; videos_count is always the length of the list
OneGridAtMostMaxVideos ==
    ChannelListingDone =>
        /\ input.second = 0 => Len(result.info["videos"]) = Min(input.first, max_results)
        /\ result.listed["videos"] = result.info["videos"]
        /\ result.info["videos_count"] = Len(result.info["videos"])
        /\ result.listed["videos_count"] = Len(result.listed["videos"])

\* ---- C28 ----

\* a driver has returned a result that is no error
DriverResult == op \in Drivers /\ pc = "done" /\ ~raised /\ "error" \notin DOMAIN result

\* C28: in every non-error result the count agrees with the list:
\* results_count = len(results) for search_youtube and videos_count =
\* len(videos) for get_playlist_info, for every max_results (0 and negative
\* ones too) and every sequence of pages.
C28_CountAgreesWithList ==
    DriverResult =>
        IF op = "search" THEN result["results_count"] = Len(result["results"])
        ELSE result["videos_count"] = Len(result["videos"])

\* with max_results of 1 or more the count agrees with the list
PositiveQuotaCountAgrees ==
    (DriverResult /\ max_results >= 1) =>
        IF op = "search" THEN result["results_count"] = Len(result["results"])
        ELSE result["videos_count"] = Len(result["videos"])

\* ---- C29 ----

\* the ids of the first n records of the listing, in the order served
FirstIds(n) == [i \in 1..n |-> VideoId(i)]

\* the ids of a list of records
IdsOf(records) == [i \in DOMAIN records |-> Get(records[i], "video_id", None)]

\* s is the beginning of t
IsPrefix(s, t) == Len(s) <= Len(t) /\ SubSeq(t, 1, Len(s)) = s

\* a step of a driver leaves what was collected at the head of the list
MergeKeepsCollected == op \in Drivers => IsPrefix(all_results, all_results')

\* C29: the list a driver returns is the first min(max_results, N) records
\* of the pages processed, taken in fetch order, N being the number of
\* records of those pages: none is out of place, twice or missing; and what
\* is collected stays as it is when a later page is merged.
C29_PrefixInFetchOrder ==
    /\ [](DriverResult => IdsOf(Returned) = FirstIds(Min(Max(max_results, 0), produced)))
    /\ [][MergeKeepsCollected]_vars

\* two pages were merged and the list returned has records of both
C29_Witness ==
    /\ DriverResult /\ page_count >= 2
    /\ Len(Returned) > 2
    /\ Len(Returned) < produced
    /\ IdsOf(Returned) = FirstIds(Len(Returned))

\* ---- C30 ----

\* the identifier the argument resolves to (None: to none)
ResolvedId ==
    CASE op = "video" -> extract_video_id(input)
      [] op = "channel" -> IF input.kind = "none" THEN None
                           ELSE extract_channel_id_from_input(input)
      [] op = "playlist" -> extract_playlist_id(input)
      [] OTHER -> None

\* the call fetched its page and returned a result that is no error
LookupResult ==
    /\ op \in {"video", "channel", "playlist"} /\ pc = "done" /\ ~raised
    /\ firstFetch = "ok" /\ "error" \notin DOMAIN result
    /\ ~Falsy(ResolvedId)

\* C30: when the argument resolves to an identifier the result reports that
\* identifier: video_id of get_video_info, channel_id of get_channel_info
\* (with channel_url the channel URL of it) and playlist_id of
\* get_playlist_info are not replaced by a value of the response.
C30_IdentifierKept ==
    LookupResult =>
        CASE op = "video" -> result["video_id"] = ResolvedId
          [] op = "channel" ->
                 /\ result["channel_id"] = ResolvedId
                 /\ result["channel_url"] =
                        "https://www.youtube.com/channel/" \o result["channel_id"]
          [] OTHER -> result["playlist_id"] = ResolvedId

\* get_playlist_info reports the identifier it resolved, and its URL
PlaylistIdKept ==
    (LookupResult /\ op = "playlist") =>
        /\ result["playlist_id"] = ResolvedId
        /\ result["playlist_url"] = PlaylistUrl(ResolvedId)

====
